---- MODULE Spec2Model ----
(***************************************************************************)
(* A model of the arkiv archive engine (Amaury/arkiv-format, Go).          *)
(*                                                                         *)
(* Byte strings are sequences of byte values (0..255).  Eight              *)
(* specifications share the module:                                        *)
(*   Spec          the writer (Create) followed by one reader call         *)
(*                 (Extract or List) over the archive it produced;         *)
(*   SpecOutside   the same over inputs outside the working directory;     *)
(*   SpecIndex     Index.Serialize over arbitrary entry lists;             *)
(*   SpecParse     the index parser over single index lines;               *)
(*   SpecCipher    the CBC/PKCS#7 encrypt writer and decrypt reader;       *)
(*   SpecCipherCut the decrypt reader over streams cut short;              *)
(*   SpecReader    one reader session making several calls, over archives  *)
(*                 found damaged and destinations where operations fail;   *)
(*   SpecCLI       RunCLI: command-line runs that dispatch to the above.   *)
(***************************************************************************)
EXTENDS Integers, Sequences, FiniteSets, TLC

VARIABLES
    \* ---- the input file system and the call arguments
    fs,            \* on-disk path -> object ([kind, content, target]); kind "none" = absent
    inputs,        \* Create's argument: the list of input paths
    \* ---- ArchiveWriter.Create
    wpc,           \* "off" | "init" | "paths" | "done" | "failed"
    tar,           \* the outer tar: sequence of [name, payload]
    prefixB64,     \* the writer's salt, base64
    paths,         \* sorted, de-duplicated paths still to process
    idx,           \* Index.Entries accumulated by the writer
    dataWritten,   \* set of data hashes already emitted
    foreign,       \* whether the archive's members were put in another writer's order
    damage,        \* "none", or what was done to the archive file after it was written
    \* ---- ArchiveReader (session, Extract, List)
    rPrefixB64,    \* a.prefixB64 (<<>> when not loaded)
    rIndex,        \* a.index.Entries
    rLoaded,       \* a.index != nil
    xpc,           \* "idle" | "loop" | "ok" | "err"
    xprefixes,     \* the prefixes argument
    wanted,        \* selected index entries
    regMetaByPath, \* raw path -> deferred header of a regular file
    xpos,          \* position of the next outer member to read
    dest,          \* destination tree: out path (relative to DEST) -> object
    destRoot,      \* whether DEST itself exists
    materialized,  \* raw paths of the entries Extract materialized so far
    mtimes,        \* out path -> whether its modification time is the stored one
    lpc,           \* List: "idle" | "ok" | "err"
    listed,        \* the lines List printed (raw paths, in print order)
    calls,         \* List/Extract calls made on the session before the current one
    loads,         \* how many times the session opened the archive to load salt and index
    fault,         \* "none", or the kind of file-system operation that fails under DEST
    ignoredFailure, \* whether Extract went on after a failed file-system operation
    \* ---- Index.Serialize on its own
    sEntries,      \* an arbitrary list of IndexEntry
    sOut,          \* Serialize's result
    sDone,         \* whether Serialize ran
    sParsed,       \* <<>>, or <<r>> with r the reader's parse of sOut: [ok, entries]
    \* ---- cipher pipeline
    cpc,           \* "off" | "write" | "closed" | "read" | "eof" | "error"
    plain,         \* the plaintext x
    wkey,          \* key+iv the writer derived from its password
    written,       \* how many bytes of x were passed to Write
    wbuf,          \* cbcPKCS7Writer.buf
    wchain,        \* the encrypter's chaining block (cipher.BlockMode state)
    cipherOut,     \* bytes the writer emitted after the 16-byte header
    rkey,          \* key+iv the reader derived from its password
    src,           \* ciphertext the underlying source has not delivered yet
    rbuf,          \* cbcPKCS7Reader.buf
    rout,          \* cbcPKCS7Reader.out
    rfin,          \* cbcPKCS7Reader.fin
    rchain,        \* the decrypter's chaining block
    delivered,     \* plaintext bytes the consumer received
    rerr,          \* "none" | "EOF" | "UnexpectedEOF" | "PadShort" | "PadRange" | "PadContent"
    \* ---- the command line
    cliArgv,       \* argv after the program name: [cmd, args]; cmd is <<>> when len(argv) < 2
    cliEnv,        \* the environment: <<>> when ARKIV_PASS is unset, else <<its value>>
    cliCall,       \* "none", or the call RunCLI is waiting for: "create" | "ls" | "extract"
    cliResult,     \* "none" | "running" | "nil" | "err": what RunCLI returned
    password       \* the password buffer of the session the run constructed, else <<>>

inputVars   == <<fs, inputs>>
writerVars  == <<wpc, tar, prefixB64, paths, idx, dataWritten, foreign, damage>>
readerVars  == <<rPrefixB64, rIndex, rLoaded, xpc, xprefixes, wanted,
                 regMetaByPath, xpos, dest, destRoot, materialized, mtimes, lpc, listed,
                 calls, loads, fault, ignoredFailure>>
archiveVars == <<inputVars, writerVars, readerVars>>
indexVars   == <<sEntries, sOut, sDone, sParsed>>
cipherVars  == <<cpc, plain, wkey, written, wbuf, wchain, cipherOut, rkey, src,
                 rbuf, rout, rfin, rchain, delivered, rerr>>
cliVars     == <<cliArgv, cliEnv, cliCall, cliResult, password>>
vars        == <<archiveVars, indexVars, cipherVars, cliVars>>

(***************************************************************************)
(* Bounds of the model.                                                    *)
(***************************************************************************)
MaxInputs  == 2     \* length of Create's input list
MaxEntries == 3     \* length of the entry list given to Serialize
MaxBlocks  == 2     \* whole blocks in the plaintext given to the cipher
MaxCalls   == 2     \* List/Extract calls on one reader session

(***************************************************************************)
(* Bytes and byte strings.                                                 *)
(***************************************************************************)
QUOTE  == 34
BSLASH == 92
SLASH  == 47
EQUALS == 61
LF     == 10

Min(a, b) == IF a < b THEN a ELSE b

\* strings.HasPrefix
HasPrefix(s, p) == Len(p) <= Len(s) /\ SubSeq(s, 1, Len(p)) = p

\* strings.Compare(a, b) < 0, bytes.Compare(a, b) < 0: unsigned byte order
RECURSIVE BytesLess(_, _)
BytesLess(a, b) ==
    IF b = <<>> THEN FALSE
    ELSE IF a = <<>> THEN TRUE
    ELSE IF a[1] # b[1] THEN a[1] < b[1]
    ELSE BytesLess(Tail(a), Tail(b))

\* strings.ReplaceAll(s, old, new) for a one-byte old
RECURSIVE ReplaceAll(_, _, _)
ReplaceAll(s, old, new) ==
    IF s = <<>> THEN <<>>
    ELSE (IF s[1] = old THEN new ELSE <<s[1]>>) \o ReplaceAll(Tail(s), old, new)

\* strings.IndexByte(s, c): 0-based index of the first c, -1 when absent
IndexByte(s, c) ==
    LET at == {i \in 1..Len(s) : s[i] = c} IN
    IF at = {} THEN -1 ELSE (CHOOSE i \in at : \A j \in at : i <= j) - 1

\* strings.ToLower on ASCII
ToLower(s) == [i \in 1..Len(s) |-> IF s[i] >= 65 /\ s[i] <= 90 THEN s[i] + 32 ELSE s[i]]

\* sort.Slice(x, less) with BytesLess: insertion into a sorted sequence
RECURSIVE InsertSorted(_, _)
InsertSorted(x, s) ==
    IF s = <<>> THEN <<x>>
    ELSE IF BytesLess(s[1], x) THEN <<s[1]>> \o InsertSorted(x, Tail(s))
    ELSE <<x>> \o s

RECURSIVE SortBytes(_)
SortBytes(s) == IF s = <<>> THEN <<>> ELSE InsertSorted(s[1], SortBytes(Tail(s)))

\* bytes.Join(lines, sep)
RECURSIVE Join(_, _)
Join(lines, sep) ==
    IF lines = <<>> THEN <<>>
    ELSE IF Len(lines) = 1 THEN lines[1]
    ELSE lines[1] \o sep \o Join(Tail(lines), sep)

\* base64.StdEncoding
B64Char(i) ==
    IF i < 26 THEN 65 + i
    ELSE IF i < 52 THEN 97 + (i - 26)
    ELSE IF i < 62 THEN 48 + (i - 52)
    ELSE IF i = 62 THEN 43 ELSE 47

RECURSIVE Base64(_)
Base64(b) ==
    IF b = <<>> THEN <<>>
    ELSE IF Len(b) = 1 THEN
        <<B64Char(b[1] \div 4), B64Char((b[1] % 4) * 16), EQUALS, EQUALS>>
    ELSE IF Len(b) = 2 THEN
        <<B64Char(b[1] \div 4), B64Char((b[1] % 4) * 16 + b[2] \div 16),
          B64Char((b[2] % 16) * 4), EQUALS>>
    ELSE
        <<B64Char(b[1] \div 4), B64Char((b[1] % 4) * 16 + b[2] \div 16),
          B64Char((b[2] % 16) * 4 + b[3] \div 64), B64Char(b[3] % 64)>>
        \o Base64(SubSeq(b, 4, Len(b)))

\* prefixBytesToBase64
prefixBytesToBase64(b8) == Base64(b8)

\* hex.EncodeToString (lowercase)
HexDigit(n) == IF n < 10 THEN 48 + n ELSE 87 + n

RECURSIVE HexEncode(_)
HexEncode(b) ==
    IF b = <<>> THEN <<>>
    ELSE <<HexDigit(b[1] \div 16), HexDigit(b[1] % 16)>> \o HexEncode(Tail(b))

\* sha512.New512_256: the digest is abstracted as a collision-free function of
\* the bytes written to it (the bytes themselves).
SHA512_256(bytes) == bytes

\* computeNameHash(prefixB64, pathRaw)
computeNameHash(pB64, pathRaw) == HexEncode(SHA512_256(pB64 \o pathRaw))

\* the data hash of Create: h.Write(prefixB64); h.Write(file bytes)
computeDataHash(pB64, content) == HexEncode(SHA512_256(pB64 \o content))

\* "meta/" + hName + ".tar.zst.aes" and "data/" + hData + ".zst.aes"
MetaName(h) == <<"meta", h>>
DataName(h) == <<"data", h>>
\* the three fixed member names, in the same shape
MagicName  == <<"magic.zst", <<>>>>
PrefixName == <<"prefix.zst.aes", <<>>>>
IndexName  == <<"index.zst.aes", <<>>>>

\* MagicString = "arkiv001"
MagicString == <<97, 114, 107, 105, 118, 48, 48, 49>>

(***************************************************************************)
(* Index model: escaping, parsing, canonical serialization.                *)
(***************************************************************************)
\* escapeForIndex: the raw-between-quotes result
EscapeRaw(path) ==
    ReplaceAll(ReplaceAll(path, BSLASH, <<BSLASH, BSLASH>>), QUOTE, <<BSLASH, QUOTE>>)

\* escapeForIndex: the quoted result
EscapeQuoted(path) == <<QUOTE>> \o EscapeRaw(path) \o <<QUOTE>>

\* IndexEntry
IndexEntry(raw, hash, quoted) == [PathRaw |-> raw, HashData |-> hash, Quoted |-> quoted]

\* parseIndexLine: [ok, raw, hash]
parseIndexLine(line) ==
    IF ~HasPrefix(line, <<QUOTE>>) THEN [ok |-> FALSE, raw |-> <<>>, hash |-> <<>>]
    ELSE LET j == IndexByte(Tail(line), QUOTE) IN
         IF j < 0 THEN [ok |-> FALSE, raw |-> <<>>, hash |-> <<>>]
         ELSE LET i == j + 1 IN            \* 0-based index of the closing quote
              IF Len(line) = i + 1
              THEN [ok |-> TRUE, raw |-> SubSeq(line, 2, i), hash |-> <<>>]
              ELSE IF line[i + 2] # EQUALS
              THEN [ok |-> FALSE, raw |-> <<>>, hash |-> <<>>]
              ELSE [ok |-> TRUE, raw |-> SubSeq(line, 2, i),
                    hash |-> SubSeq(line, i + 3, Len(line))]

\* the line Serialize forms for one entry
EntryLine(e) ==
    IF e.HashData # <<>> THEN e.Quoted \o <<EQUALS>> \o ToLower(e.HashData)
    ELSE e.Quoted

\* Serialize's first loop: the lines in entry order, exact duplicates skipped
RECURSIVE DedupLines(_, _)
DedupLines(entries, seen) ==
    IF entries = <<>> THEN <<>>
    ELSE LET line == EntryLine(entries[1]) IN
         IF line \in seen THEN DedupLines(Tail(entries), seen)
         ELSE <<line>> \o DedupLines(Tail(entries), seen \cup {line})

\* Variant: the lines are joined in entry order, without the sort
SerializeUnsorted(entries) == Join(DedupLines(entries, {}), <<LF>>)

\* Index.Serialize
Serialize(entries) == Join(SortBytes(DedupLines(entries, {})), <<LF>>)

\* bufio.Scanner with ScanLines: split at LF, drop one trailing CR per line
DropCR(l) == IF l # <<>> /\ l[Len(l)] = 13 THEN SubSeq(l, 1, Len(l) - 1) ELSE l

RECURSIVE ScanLines(_)
ScanLines(bytes) ==
    IF bytes = <<>> THEN <<>>
    ELSE LET i == IndexByte(bytes, LF) IN
         IF i < 0 THEN <<DropCR(bytes)>>
         ELSE <<DropCR(SubSeq(bytes, 1, i))>> \o ScanLines(SubSeq(bytes, i + 2, Len(bytes)))

(***************************************************************************)
(* The input file system.                                                  *)
(***************************************************************************)
None       == [kind |-> "none", content |-> <<>>, target |-> <<>>]
File(c)    == [kind |-> "f", content |-> c, target |-> <<>>]
Dir        == [kind |-> "d", content |-> <<>>, target |-> <<>>]
Symlink(t) == [kind |-> "l", content |-> <<>>, target |-> t]
Fifo       == [kind |-> "p", content |-> <<>>, target |-> <<>>]
Special    == [kind |-> "s", content |-> <<>>, target |-> <<>>]  \* socket, device

\* The candidate on-disk paths: a, a/b, ab and b\ (a name ending in a backslash),
\* and two paths that do not lie below the working directory: ../c and /e
PathA   == <<97>>
PathAB  == <<97, SLASH, 98>>
PathAb  == <<97, 98>>
PathBS  == <<98, BSLASH>>
PathUp  == <<46, 46, SLASH, 99>>
PathAbs == <<SLASH, 101>>
UPaths  == {PathA, PathAB, PathAb, PathBS, PathUp, PathAbs}

ContentX == <<120>>
ContentY == <<121>>

\* The input trees: every assignment of objects to the candidate paths in which
\* a/b exists only inside a directory a.  Up to three regular files, with
\* equal or different contents; an empty file; every supported type and an
\* unsupported one.
Trees ==
    { t \in [UPaths -> {None, File(ContentX), File(ContentY), File(<<>>), Dir,
                        Symlink(PathAb), Fifo, Special}] :
        /\ t[PathAB] \in {None, File(ContentX), File(ContentY)}
        /\ t[PathAB] # None => t[PathA] = Dir
        /\ t[PathA] \in {None, File(<<>>), Dir, Symlink(PathAb), Fifo, Special}
        /\ t[PathAb] \in {None, File(ContentX), File(ContentY), Special}
        /\ t[PathBS] \in {None, File(ContentX)}
        /\ t[PathUp] = None
        /\ t[PathAbs] = None }

\* The input trees with objects outside the working directory: ../c of any
\* supported type, the regular file /e, and the directory a with its file a/b
OutsideTrees ==
    { t \in [UPaths -> {None, File(ContentX), File(ContentY), Dir, Symlink(PathAb), Fifo}] :
        /\ t[PathUp] \in {None, File(ContentX), Dir, Symlink(PathAb), Fifo}
        /\ t[PathAbs] \in {None, File(ContentY)}
        /\ t[PathA] \in {None, Dir}
        /\ t[PathAB] \in {None, File(ContentX)}
        /\ t[PathAB] # None => t[PathA] = Dir
        /\ t[PathAb] = None
        /\ t[PathBS] = None }

\* The input arguments: "a/" (which Clean turns into "a"), "a/b", "ab", "b\"
InputPool == {<<97, SLASH>>, PathAB, PathAb, PathBS}

RECURSIVE SeqsUpTo(_, _)
SeqsUpTo(S, n) ==
    IF n = 0 THEN {<<>>}
    ELSE LET shorter == SeqsUpTo(S, n - 1) IN
         shorter \cup {Append(s, x) : s \in {t \in shorter : Len(t) = n - 1}, x \in S}

\* The input lists tried: Create sorts what the walks collect, so the order of
\* the arguments has no effect; the lists are taken in non-decreasing order,
\* an argument repeated included
InputLists ==
    {s \in SeqsUpTo(InputPool, MaxInputs) :
        \A i \in 1..(Len(s) - 1) : s[i] = s[i + 1] \/ BytesLess(s[i], s[i + 1])}

\* The 8 random bytes of prefix.zst.aes
Salts == {<<0, 0, 0, 0, 0, 0, 0, 0>>, <<255, 1, 2, 3, 4, 5, 6, 7>>}

(***************************************************************************)
(* ArchiveWriter.Create                                                    *)
(***************************************************************************)
\* filepath.Clean, as far as the inputs of the model need it: trailing
\* separators are removed; a leading ".." element and a leading separator stay
RECURSIVE Clean(_)
Clean(p) ==
    IF Len(p) > 1 /\ p[Len(p)] = SLASH THEN Clean(SubSeq(p, 1, Len(p) - 1)) ELSE p

\* The elements of a finite set of byte strings as a sequence, in byte order
RECURSIVE SetToSeq(_)
SetToSeq(T) ==
    IF T = {} THEN <<>>
    ELSE LET x == CHOOSE y \in T : \A z \in T : z = y \/ BytesLess(y, z)
         IN <<x>> \o SetToSeq(T \ {x})

\* filepath.WalkDir(in, fn) with Create's callback: the root and, below a
\* directory root, every descendant (symlinks not followed); an error when the
\* root cannot be lstat-ed
WalkDir(root) ==
    IF root \notin UPaths \/ fs[root] = None
    THEN [ok |-> FALSE, visited |-> <<>>]
    ELSE [ok |-> TRUE,
          visited |-> SetToSeq({p \in UPaths :
                                  /\ fs[p] # None
                                  /\ \/ p = root
                                     \/ /\ fs[root] = Dir
                                        /\ HasPrefix(p, root \o <<SLASH>>)})]

\* Create's loop over the inputs: the visited paths appended in input order,
\* stopping at the first walk error
RECURSIVE WalkInputs(_, _)
WalkInputs(ins, acc) ==
    IF ins = <<>> THEN [ok |-> TRUE, visited |-> acc]
    ELSE LET w == WalkDir(Clean(ins[1])) IN
         IF ~w.ok THEN [ok |-> FALSE, visited |-> acc]
         ELSE WalkInputs(Tail(ins), acc \o w.visited)

\* Variant: no de-duplication
UniqNone(s, last) == s

\* Create's de-duplication of the sorted paths (last starts as "")
RECURSIVE Uniq(_, _)
Uniq(s, last) ==
    IF s = <<>> THEN <<>>
    ELSE IF s[1] = last THEN Uniq(Tail(s), last)
    ELSE <<s[1]>> \o Uniq(Tail(s), s[1])

\* classifyPath: the type code, "" for an unsupported special file
classifyPath(obj) == IF obj.kind \in {"f", "d", "l", "p"} THEN obj.kind ELSE ""

\* The inner meta tar header Create builds for a path
MetaHeader(raw, obj) == [Name |-> raw, Typeflag |-> obj.kind, Linkname |-> obj.target]

\* zstd then OpenSSL enc of a member payload, and the reverse: the archive
\* model keeps the plaintext inside an opaque wrapper
Seal(x)   == [sealed |-> x]
Unseal(s) == s.sealed
\* zstd alone (magic.zst is not encrypted)
Zstd(x)   == [zstd |-> x]
Unzstd(s) == s.zstd

Member(name, payload) == [name |-> name, payload |-> payload]

\* Variant: the dataWritten test never suppresses a data member
NeedsDataMemberAlways(hData, seen) == TRUE

\* Whether Create emits the data member for this hash (the dataWritten test)
NeedsDataMember(hData, seen) == hData \notin seen

\* The members Create emits for one path: meta, then data for a regular file
\* whose hash was not written yet
PathMembers(p, obj, pB64, seen) ==
    LET raw   == EscapeRaw(p)
        meta  == Member(MetaName(computeNameHash(pB64, raw)), Seal(MetaHeader(raw, obj)))
        hData == computeDataHash(pB64, obj.content)
    IN IF obj.kind = "f" /\ NeedsDataMember(hData, seen)
       THEN <<meta, Member(DataName(hData), Seal(obj.content))>>
       ELSE <<meta>>

\* Variant: the index entry carries the path as found on disk, unescaped
PathEntryUnescaped(p, obj, pB64) ==
    IndexEntry(p,
               IF obj.kind = "f" THEN computeDataHash(pB64, obj.content) ELSE <<>>,
               <<QUOTE>> \o p \o <<QUOTE>>)

\* The index entry Create appends for one path
PathEntry(p, obj, pB64) ==
    IndexEntry(EscapeRaw(p),
               IF obj.kind = "f" THEN computeDataHash(pB64, obj.content) ELSE <<>>,
               EscapeQuoted(p))

\* Variant: the salt member is emitted before the magic member
PrologueSwapped(salt) ==
    << Member(PrefixName, Seal(salt)), Member(MagicName, Zstd(MagicString)) >>

\* The two members Create emits first: magic.zst, then prefix.zst.aes
Prologue(salt) == << Member(MagicName, Zstd(MagicString)), Member(PrefixName, Seal(salt)) >>

\* Variant: a failed Create removes the archive file
AfterErrorRemoved(t) == <<>>

\* What a failed Create leaves of the archive file: return err runs the
\* deferred tw.Close() and f.Close() and nothing else
AfterError(t) == t

\* Create, up to the per-path loop: create the file, emit magic.zst and
\* prefix.zst.aes, walk, sort and de-duplicate the inputs
CreateOpen ==
    /\ wpc = "init"
    /\ \E salt \in Salts :
         LET w == WalkInputs(inputs, <<>>) IN
         /\ tar' = IF w.ok THEN Prologue(salt) ELSE AfterError(Prologue(salt))
         /\ prefixB64' = Base64(salt)
         /\ IF w.ok
            THEN /\ paths' = Uniq(SortBytes(w.visited), <<>>)
                 /\ wpc' = "paths"
            ELSE /\ paths' = <<>>
                 /\ wpc' = "failed"
    /\ idx' = <<>>
    /\ dataWritten' = {}
    /\ UNCHANGED <<foreign, damage, inputVars, readerVars, indexVars, cipherVars, cliVars>>

\* One iteration of Create's per-path loop
CreatePath ==
    /\ wpc = "paths"
    /\ paths # <<>>
    /\ LET p   == Head(paths)
           obj == fs[p]
       IN IF classifyPath(obj) = ""
          THEN /\ wpc' = "failed"
               /\ tar' = AfterError(tar)
               /\ UNCHANGED <<idx, dataWritten, paths>>
          ELSE /\ tar' = tar \o PathMembers(p, obj, prefixB64, dataWritten)
               /\ dataWritten' = IF obj.kind = "f"
                                 THEN dataWritten \cup {computeDataHash(prefixB64, obj.content)}
                                 ELSE dataWritten
               /\ idx' = Append(idx, PathEntry(p, obj, prefixB64))
               /\ paths' = Tail(paths)
               /\ wpc' = "paths"
    /\ UNCHANGED <<prefixB64, foreign, damage, inputVars, readerVars, indexVars, cipherVars, cliVars>>

\* Create, after the loop: serialize the index and emit index.zst.aes last
CreateIndex ==
    /\ wpc = "paths"
    /\ paths = <<>>
    /\ tar' = Append(tar, Member(IndexName, Seal(Serialize(idx))))
    /\ wpc' = "done"
    /\ UNCHANGED <<prefixB64, paths, idx, dataWritten, foreign, damage>>
    /\ UNCHANGED <<inputVars, readerVars, indexVars, cipherVars, cliVars>>

(***************************************************************************)
(* An archive from another writer of the format                            *)
(***************************************************************************)
\* The members of t whose name is in the given directory ("meta" or "data")
RECURSIVE MembersIn(_, _)
MembersIn(t, dir) ==
    IF t = <<>> THEN <<>>
    ELSE (IF t[1].name[1] = dir THEN <<t[1]>> ELSE <<>>) \o MembersIn(Tail(t), dir)

\* The same archive with every meta member before every data member: the format
\* fixes magic, prefix and index only, and a writer may emit the members
\* between them in this order
MetasFirst(t) ==
    SubSeq(t, 1, 2) \o MembersIn(t, "meta") \o MembersIn(t, "data") \o <<t[Len(t)]>>

\* The reader is given the archive in that order
ForeignOrder ==
    /\ wpc = "done"
    /\ xpc = "idle"
    /\ lpc = "idle"
    /\ ~foreign
    /\ damage = "none"
    /\ calls = 0
    /\ MetasFirst(tar) # tar
    /\ tar' = MetasFirst(tar)
    /\ foreign' = TRUE
    /\ UNCHANGED <<wpc, prefixB64, paths, idx, dataWritten, damage>>
    /\ UNCHANGED <<inputVars, readerVars, indexVars, cipherVars, cliVars>>

(***************************************************************************)
(* ArchiveReader: the lazy load                                            *)
(***************************************************************************)
LoadFailed == [ok |-> FALSE, prefix |-> <<>>, index |-> <<>>, opened |-> TRUE]

\* Variant: the length of the prefix payload is not checked
readMagicAndPrefixAnyLength(t) ==
    IF Len(t) < 1 \/ t[1].name # MagicName THEN [ok |-> FALSE, prefix |-> <<>>]
    ELSE IF Unzstd(t[1].payload) # MagicString THEN [ok |-> FALSE, prefix |-> <<>>]
    ELSE IF Len(t) < 2 \/ t[2].name # PrefixName THEN [ok |-> FALSE, prefix |-> <<>>]
    ELSE [ok |-> TRUE, prefix |-> prefixBytesToBase64(Unseal(t[2].payload))]

\* readMagicAndPrefix over the outer tar t: [ok, prefix]
readMagicAndPrefix(t) ==
    IF Len(t) < 1 \/ t[1].name # MagicName THEN [ok |-> FALSE, prefix |-> <<>>]
    ELSE IF Unzstd(t[1].payload) # MagicString THEN [ok |-> FALSE, prefix |-> <<>>]
    ELSE IF Len(t) < 2 \/ t[2].name # PrefixName THEN [ok |-> FALSE, prefix |-> <<>>]
    ELSE IF Len(Unseal(t[2].payload)) # 8 THEN [ok |-> FALSE, prefix |-> <<>>]
    ELSE [ok |-> TRUE, prefix |-> prefixBytesToBase64(Unseal(t[2].payload))]

\* scanToParseIndex's line loop: blank lines skipped, the first bad line is fatal
RECURSIVE ParseLines(_, _)
ParseLines(lines, acc) ==
    IF lines = <<>> THEN [ok |-> TRUE, entries |-> acc]
    ELSE IF lines[1] = <<>> THEN ParseLines(Tail(lines), acc)
    ELSE LET r == parseIndexLine(lines[1]) IN
         IF ~r.ok THEN [ok |-> FALSE, entries |-> <<>>]
         ELSE ParseLines(Tail(lines),
                         Append(acc, IndexEntry(r.raw, r.hash,
                                                <<QUOTE>> \o r.raw \o <<QUOTE>>)))

\* Variant: a tar that ends before an index member is an archive of nothing
scanToParseIndexLenient(t, pos) ==
    IF \E i \in pos..Len(t) : t[i].name = IndexName
    THEN LET first == CHOOSE i \in pos..Len(t) :
                         /\ t[i].name = IndexName
                         /\ \A j \in pos..(i - 1) : t[j].name # IndexName
         IN ParseLines(ScanLines(Unseal(t[first].payload)), <<>>)
    ELSE [ok |-> TRUE, entries |-> <<>>]

\* scanToParseIndex from outer member pos on: [ok, entries]
RECURSIVE scanToParseIndex(_, _)
scanToParseIndex(t, pos) ==
    IF pos > Len(t) THEN [ok |-> FALSE, entries |-> <<>>]
    ELSE IF t[pos].name = IndexName
    THEN ParseLines(ScanLines(Unseal(t[pos].payload)), <<>>)
    ELSE scanToParseIndex(t, pos + 1)

\* Variant: the salt is cached as soon as it has been read
LoadArchiveKeepsPrefix ==
    LET mp == readMagicAndPrefix(tar) IN
    IF ~mp.ok THEN LoadFailed
    ELSE LET ix == scanToParseIndex(tar, 3) IN
         IF ~ix.ok
         THEN [ok |-> FALSE, prefix |-> mp.prefix, index |-> <<>>, opened |-> TRUE]
         ELSE [ok |-> TRUE, prefix |-> mp.prefix, index |-> ix.entries, opened |-> TRUE]

\* ensureLoaded's first pass over the archive file: a.prefixB64 and a.index
\* are assigned together, after both were read
LoadArchive ==
    LET mp == readMagicAndPrefix(tar) IN
    IF ~mp.ok THEN LoadFailed
    ELSE LET ix == scanToParseIndex(tar, 3) IN
         IF ~ix.ok THEN LoadFailed
         ELSE [ok |-> TRUE, prefix |-> mp.prefix, index |-> ix.entries, opened |-> TRUE]

\* Variant: the cached salt and index are not consulted
ensureLoadedReload == LoadArchive

\* ensureLoaded: what the session holds afterwards, and whether the archive
\* file was opened for it: [ok, prefix, index, opened]
ensureLoaded ==
    IF rLoaded /\ rPrefixB64 # <<>>
    THEN [ok |-> TRUE, prefix |-> rPrefixB64, index |-> rIndex, opened |-> FALSE]
    ELSE LoadArchive

(***************************************************************************)
(* Selection                                                               *)
(***************************************************************************)
\* matchesPrefix(pathRaw, prefixes)
matchesPrefix(pathRaw, prefixes) ==
    IF Len(prefixes) = 0 THEN TRUE
    ELSE LET unesc == ReplaceAll(ReplaceAll(pathRaw, BSLASH, <<BSLASH, BSLASH>>),
                                 QUOTE, <<BSLASH, QUOTE>>)
         IN \E i \in 1..Len(prefixes) :
                HasPrefix(pathRaw, prefixes[i]) \/ HasPrefix(unesc, prefixes[i])

\* the wanted list of Extract and List: the index entries that match, in index order
RECURSIVE SelectWanted(_, _)
SelectWanted(entries, prefixes) ==
    IF entries = <<>> THEN <<>>
    ELSE (IF matchesPrefix(entries[1].PathRaw, prefixes) THEN <<entries[1]>> ELSE <<>>)
         \o SelectWanted(Tail(entries), prefixes)

\* the meta member name of an entry, with the session's salt
MetaNameOf(pB64, e) == MetaName(computeNameHash(pB64, e.PathRaw))

\* targetNameHashes: whether a member name is a key, and the entry it maps to
\* (a later entry with the same name replaces an earlier one)
HasTarget(name) == \E i \in 1..Len(wanted) : MetaNameOf(rPrefixB64, wanted[i]) = name
TargetOf(name) ==
    wanted[CHOOSE i \in 1..Len(wanted) :
                /\ MetaNameOf(rPrefixB64, wanted[i]) = name
                /\ \A j \in (i + 1)..Len(wanted) : MetaNameOf(rPrefixB64, wanted[j]) # name]

\* dataNeeds[name]: the wanted entries that need this data member, in order
RECURSIVE DataNeedsOf(_, _)
DataNeedsOf(entries, name) ==
    IF entries = <<>> THEN <<>>
    ELSE (IF entries[1].HashData # <<>> /\ DataName(entries[1].HashData) = name
          THEN <<entries[1]>> ELSE <<>>)
         \o DataNeedsOf(Tail(entries), name)

\* The prefix arguments tried: none, or one of "a", "b\\\" and "c"
PrefixArgs == {<<>>, <<PathA>>, <<<<98, BSLASH, BSLASH, BSLASH>>>>, <<<<99>>>>}

(***************************************************************************)
(* The destination tree                                                    *)
(***************************************************************************)
\* toOutPath's two replacements on the raw stored path
OutReplace(raw) ==
    ReplaceAll(ReplaceAll(raw, BSLASH, <<BSLASH, BSLASH>>), QUOTE, <<BSLASH, QUOTE>>)

\* The parent directory of dest, as a path relative to dest
DestParent == <<46, 46>>

\* toOutPath: filepath.Join(dest, p), as the path relative to dest.  The
\* elements are joined with one separator, so a leading separator of p
\* disappears, and the result is cleaned; a leading ".." element of p is kept
\* by Clean and leads out of dest
toOutPath(raw) ==
    LET p == OutReplace(raw) IN
    Clean(IF Len(p) > 1 /\ p[1] = SLASH THEN Tail(p) ELSE p)

\* the directories above a relative path (filepath.Dir, repeatedly)
Ancestors(p) == {SubSeq(p, 1, i - 1) : i \in {j \in 2..Len(p) : p[j] = SLASH}}

\* os.MkdirAll for the set of directories `need`: [ok, dest].  The parent of
\* dest is a directory that exists once dest does: nothing is made for it
MkdirAll(d, need) ==
    LET make == need \ {DestParent} IN
    IF \/ \E q \in make \cap DOMAIN d : d[q].kind # "d"
       \/ fault = "mkdir" /\ make \ DOMAIN d # {}
    THEN [ok |-> FALSE, dest |-> d]
    ELSE [ok |-> TRUE,
          dest |-> [q \in DOMAIN d \cup make |-> IF q \in DOMAIN d THEN d[q] ELSE Dir]]

\* ensureParents(path)
ensureParents(d, p) == MkdirAll(d, Ancestors(p))

\* a new object at a path of the destination
PutObject(d, p, obj) == [q \in DOMAIN d \cup {p} |-> IF q = p THEN obj ELSE d[q]]

\* what io.Copy(out, zdec) moves into the output file: all that is left of the
\* decompressed stream
CopyStream(stream) == stream

\* Variant: a missing deferred header is not noticed
MetaMissingNever(e, reg) == FALSE

\* mh := regMetaByPath[e.PathRaw]; mh == nil
MetaMissing(e, reg) == e.PathRaw \notin DOMAIN reg

\* Extract's loop over the entries waiting for one data member; the decoder
\* zdec is shared by the whole loop: [ok, dest, done]
RECURSIVE WriteWaiting(_, _, _, _)
WriteWaiting(entries, d, stream, done) ==
    IF entries = <<>> THEN [ok |-> TRUE, dest |-> d, done |-> done]
    ELSE LET e == entries[1]
             outPath == toOutPath(e.PathRaw)
         IN IF MetaMissing(e, regMetaByPath)
            THEN [ok |-> FALSE, dest |-> d, done |-> done]
            ELSE LET par == ensureParents(d, outPath) IN
                 IF ~par.ok THEN [ok |-> FALSE, dest |-> par.dest, done |-> done]
                 ELSE IF \/ outPath \in DOMAIN par.dest /\ par.dest[outPath].kind = "d"
                         \/ fault = "create"
                 THEN [ok |-> FALSE, dest |-> par.dest, done |-> done]
                 ELSE IF fault = "write"
                 THEN [ok |-> FALSE, done |-> done,
                       dest |-> PutObject(par.dest, outPath, File(<<>>))]
                 ELSE WriteWaiting(Tail(entries),
                                   PutObject(par.dest, outPath, File(CopyStream(stream))),
                                   SubSeq(stream, Len(CopyStream(stream)) + 1, Len(stream)),
                                   done \cup {e.PathRaw})

\* Whether Extract's data branch, having returned no error, went past a failed
\* os.Chmod: its result is discarded after each file written
ChmodIgnored(entries) == fault = "chmod" /\ entries # <<>>

\* Extract's meta branch for one header: [ok, dest, done, reg]
MaterializeMeta(e, mh, d, done, reg) ==
    LET outPath == toOutPath(e.PathRaw) IN
    CASE mh.Typeflag = "d" ->
            LET r == MkdirAll(d, Ancestors(outPath) \cup {outPath}) IN
            [ok |-> r.ok, dest |-> r.dest, reg |-> reg,
             done |-> IF r.ok THEN done \cup {e.PathRaw} ELSE done]
      [] mh.Typeflag \in {"l", "p"} ->
            LET par == ensureParents(d, outPath) IN
            IF \/ ~par.ok
               \/ outPath \in DOMAIN par.dest
               \/ mh.Typeflag = "l" /\ fault = "symlink"
               \/ mh.Typeflag = "p" /\ fault = "mkfifo"
            THEN [ok |-> FALSE, dest |-> par.dest, reg |-> reg, done |-> done]
            ELSE [ok |-> TRUE, reg |-> reg, done |-> done \cup {e.PathRaw},
                  dest |-> PutObject(par.dest, outPath,
                                     IF mh.Typeflag = "l" THEN Symlink(mh.Linkname) ELSE Fifo)]
      [] mh.Typeflag = "f" ->
            [ok |-> TRUE, dest |-> d, done |-> done,
             reg |-> [q \in DOMAIN reg \cup {e.PathRaw} |->
                        IF q = e.PathRaw THEN mh ELSE reg[q]]]
      [] OTHER -> [ok |-> TRUE, dest |-> d, done |-> done, reg |-> reg]

\* The modification times under DEST after one member changed it from d to
\* d2; the time of an object is "stored", the one of its meta header, or
\* "now", the time of the last change the file system made to it.  The file
\* system stamps each object it creates, and each directory an entry was
\* added to, with the current time; os.Chtimes, the last call of each branch,
\* then sets the stored time on the paths of `stamped`
Touch(t, d, d2, stamped) ==
    LET Parent(c) ==                                  \* the directory holding c
            IF Ancestors(c) = {} THEN <<>>
            ELSE CHOOSE a \in Ancestors(c) : \A b \in Ancestors(c) : Len(b) <= Len(a)
    IN [q \in DOMAIN d2 |->
          IF q \in stamped THEN "stored"
          ELSE IF \/ q \notin DOMAIN d
                  \/ \E c \in DOMAIN d2 \ DOMAIN d : Parent(c) = q
          THEN "now"
          ELSE t[q]]

(***************************************************************************)
(* ArchiveReader.Extract                                                   *)
(***************************************************************************)
\* Variant: an empty selection is not treated apart
EmptySelectionNever(w) == FALSE

\* len(wanted) == 0
EmptySelection(w) == w = <<>>

\* Extract up to the member loop: load, select, create DEST, skip two members
ExtractStart ==
    /\ wpc \in {"done", "failed"}
    /\ xpc = "idle"
    /\ lpc = "idle"
    /\ LET ld == ensureLoaded IN
       \E pf \in PrefixArgs :
         /\ xprefixes' = pf
         /\ IF ~ld.ok
            THEN /\ xpc' = "err"
                 /\ rPrefixB64' = ld.prefix
                 /\ rIndex' = ld.index
                 /\ rLoaded' = FALSE
                 /\ UNCHANGED <<wanted, destRoot, xpos>>
            ELSE /\ rPrefixB64' = ld.prefix
                 /\ rIndex' = ld.index
                 /\ rLoaded' = TRUE
                 /\ wanted' = SelectWanted(ld.index, pf)
                 /\ IF EmptySelection(wanted')
                    THEN /\ xpc' = "ok"
                         /\ UNCHANGED <<destRoot, xpos>>
                    ELSE IF fault = "mkdir" /\ ~destRoot
                    THEN /\ xpc' = "err"
                         /\ UNCHANGED <<destRoot, xpos>>
                    ELSE IF Len(tar) < 2      \* tr.Next() fails while skipping
                    THEN /\ destRoot' = TRUE
                         /\ xpc' = "err"
                         /\ UNCHANGED xpos
                    ELSE /\ destRoot' = TRUE
                         /\ xpos' = 3
                         /\ xpc' = "loop"
       /\ loads' = IF ld.opened THEN loads + 1 ELSE loads
    /\ UNCHANGED <<regMetaByPath, dest, materialized, mtimes, lpc, listed, calls, fault,
                   ignoredFailure>>
    /\ UNCHANGED <<inputVars, writerVars, indexVars, cipherVars, cliVars>>

\* Variant: what was made under DEST is removed when Extract fails
AfterExtractErrorRemoved(d) == [q \in {} |-> None]

\* The destination tree when Extract returns an error from its member loop:
\* every error return is a plain return, nothing made so far is removed
AfterExtractError(d) == d

\* One iteration of Extract's member loop
ExtractMember ==
    /\ xpc = "loop"
    /\ xpos <= Len(tar)
    /\ LET m == tar[xpos] IN
       IF HasTarget(m.name)
       THEN LET r == MaterializeMeta(TargetOf(m.name), Unseal(m.payload), dest,
                                     materialized, regMetaByPath)
            IN /\ dest' = IF r.ok THEN r.dest ELSE AfterExtractError(r.dest)
               /\ materialized' = r.done
               /\ mtimes' = Touch(mtimes, dest, r.dest,     \* no Chtimes after os.Symlink
                                  IF Unseal(m.payload).Typeflag \in {"d", "p"}
                                  THEN {toOutPath(raw) : raw \in r.done \ materialized}
                                  ELSE {})
               /\ regMetaByPath' = r.reg
               /\ xpc' = IF r.ok THEN "loop" ELSE "err"
               /\ UNCHANGED ignoredFailure
       ELSE IF DataNeedsOf(wanted, m.name) # <<>>
       THEN LET r == WriteWaiting(DataNeedsOf(wanted, m.name), dest, Unseal(m.payload),
                                  materialized)
            IN /\ dest' = IF r.ok THEN r.dest ELSE AfterExtractError(r.dest)
               /\ materialized' = r.done
               /\ mtimes' = Touch(mtimes, dest, r.dest,
                                  {toOutPath(raw) : raw \in r.done \ materialized})
               /\ xpc' = IF r.ok THEN "loop" ELSE "err"
               /\ ignoredFailure' =
                     (ignoredFailure \/ (r.ok /\ ChmodIgnored(DataNeedsOf(wanted, m.name))))
               /\ UNCHANGED regMetaByPath
       ELSE UNCHANGED <<dest, materialized, mtimes, regMetaByPath, xpc, ignoredFailure>>
    /\ xpos' = xpos + 1
    /\ UNCHANGED <<rPrefixB64, rIndex, rLoaded, xprefixes, wanted, destRoot, lpc, listed,
                   calls, loads, fault>>
    /\ UNCHANGED <<inputVars, writerVars, indexVars, cipherVars, cliVars>>

\* The end of the outer tar: Extract returns nil
ExtractEnd ==
    /\ xpc = "loop"
    /\ xpos > Len(tar)
    /\ xpc' = "ok"
    /\ UNCHANGED <<rPrefixB64, rIndex, rLoaded, xprefixes, wanted, regMetaByPath, xpos,
                   dest, destRoot, materialized, mtimes, lpc, listed, calls, loads, fault,
                   ignoredFailure>>
    /\ UNCHANGED <<inputVars, writerVars, indexVars, cipherVars, cliVars>>

(***************************************************************************)
(* ArchiveReader.List                                                      *)
(***************************************************************************)
\* the required set of List: the meta member names of the wanted entries
RequiredNames(pB64, w) == {MetaNameOf(pB64, w[i]) : i \in 1..Len(w)}

\* List's walk from member pos with `remaining` names still missing: the set of
\* names found, or failure when the tar ends first
RECURSIVE ListWalk(_, _, _, _, _)
ListWalk(t, pos, remaining, required, found) ==
    IF remaining <= 0 THEN [ok |-> TRUE, metas |-> found]
    ELSE IF pos > Len(t) THEN [ok |-> FALSE, metas |-> found]
    ELSE IF t[pos].name \in required
    THEN ListWalk(t, pos + 1, remaining - 1, required, found \cup {t[pos].name})
    ELSE ListWalk(t, pos + 1, remaining, required, found)

\* List's print loop: the lines printed, and whether every entry had its meta
RECURSIVE PrintLines(_, _, _, _)
PrintLines(w, pB64, metas, out) ==
    IF w = <<>> THEN [ok |-> TRUE, lines |-> out]
    ELSE IF MetaNameOf(pB64, w[1]) \notin metas THEN [ok |-> FALSE, lines |-> out]
    ELSE PrintLines(Tail(w), pB64, metas, Append(out, w[1].PathRaw))

\* ArchiveReader.List(prefixes)
List ==
    /\ wpc \in {"done", "failed"}
    /\ xpc = "idle"
    /\ lpc = "idle"
    /\ LET ld == ensureLoaded IN
       \E pf \in PrefixArgs :
         /\ xprefixes' = pf
         /\ IF ~ld.ok
            THEN /\ lpc' = "err"
                 /\ rPrefixB64' = ld.prefix
                 /\ rIndex' = ld.index
                 /\ rLoaded' = FALSE
                 /\ UNCHANGED <<wanted, listed>>
            ELSE LET w   == SelectWanted(ld.index, pf)
                     req == RequiredNames(ld.prefix, w)
                     wk  == ListWalk(tar, 3, Cardinality(req), req, {})
                     pr  == PrintLines(w, ld.prefix, wk.metas, <<>>)
                 IN /\ rPrefixB64' = ld.prefix
                    /\ rIndex' = ld.index
                    /\ rLoaded' = TRUE
                    /\ wanted' = w
                    /\ IF w = <<>> THEN lpc' = "ok" /\ listed' = <<>>
                       ELSE IF Len(tar) < 2 \/ ~wk.ok THEN lpc' = "err" /\ listed' = <<>>
                       ELSE /\ listed' = pr.lines
                            /\ lpc' = IF pr.ok THEN "ok" ELSE "err"
       /\ loads' = IF ld.opened THEN loads + 1 ELSE loads
    /\ UNCHANGED <<xpc, regMetaByPath, xpos, dest, destRoot, materialized, mtimes, calls,
                   fault,
                   ignoredFailure>>
    /\ UNCHANGED <<inputVars, writerVars, indexVars, cipherVars, cliVars>>

(***************************************************************************)
(* Reader sessions: several calls, archives found damaged, failing DEST    *)
(***************************************************************************)
\* The positions of the data members of an archive
DataPositions(t) == {i \in 1..Len(t) : t[i].name[1] = "data"}

\* t without its member i
WithoutMember(t, i) == SubSeq(t, 1, i - 1) \o SubSeq(t, i + 1, Len(t))

\* t with the payload of member i replaced
WithPayload(t, i, payload) == [t EXCEPT ![i] = Member(t[i].name, payload)]

\* "arkiv002": eight bytes that are not the magic string
WrongMagic == <<97, 114, 107, 105, 118, 48, 48, 50>>

\* Archive files a reader may be pointed at that differ from what Create
\* wrote: a data member missing, a meta member missing or replaced by a second
\* copy of the meta member before it, the magic member missing or with other
\* content or a byte more, the prefix member missing or holding 7 or 9 bytes,
\* the file cut after its first member, an empty file, the index member
\* missing or holding a line without quotes
DamagedArchives(t) ==
    {[kind |-> "data", tar |-> WithoutMember(t, i)] : i \in DataPositions(t)}
    \cup {[kind |-> "meta", tar |-> WithoutMember(t, i)] :
             i \in {k \in 1..Len(t) : t[k].name[1] = "meta"}}
    \cup {[kind |-> "metatwice", tar |-> [t EXCEPT ![i] = t[i - 1]]] :
             i \in {k \in 2..Len(t) : t[k].name[1] = "meta" /\ t[k - 1].name[1] = "meta"}}
    \cup {[kind |-> "nomagic", tar |-> WithoutMember(t, 1)],
          [kind |-> "badmagic", tar |-> WithPayload(t, 1, Zstd(WrongMagic))],
          [kind |-> "longmagic", tar |-> WithPayload(t, 1, Zstd(MagicString \o <<LF>>))],
          [kind |-> "noprefix", tar |-> WithoutMember(t, 2)],
          [kind |-> "shortprefix",
           tar |-> WithPayload(t, 2, Seal(SubSeq(Unseal(t[2].payload), 1, 7)))],
          [kind |-> "longprefix",
           tar |-> WithPayload(t, 2, Seal(Unseal(t[2].payload) \o <<0>>))],
          [kind |-> "truncated", tar |-> SubSeq(t, 1, 1)],
          [kind |-> "empty", tar |-> <<>>],
          [kind |-> "noindex", tar |-> WithoutMember(t, Len(t))],
          [kind |-> "badindex",
           tar |-> WithPayload(t, Len(t),
                               Seal(Unseal(t[Len(t)].payload) \o <<LF, 97>>))]}

\* The archive file is replaced by a damaged one while no call is running
Damage ==
    /\ wpc = "done"
    /\ xpc = "idle"
    /\ lpc = "idle"
    /\ damage = "none"
    /\ fault = "none"
    /\ \E a \in DamagedArchives(tar) :
         /\ tar' = a.tar
         /\ damage' = a.kind
    /\ UNCHANGED <<wpc, prefixB64, paths, idx, dataWritten, foreign>>
    /\ UNCHANGED <<inputVars, readerVars, indexVars, cipherVars, cliVars>>

\* The kinds of operation Extract performs under DEST
FaultKinds == {"mkdir", "create", "write", "chmod", "symlink", "mkfifo"}

\* DEST is such that every operation of one kind fails (permissions, a full
\* or read-only file system)
InjectFault ==
    /\ wpc = "done"
    /\ xpc = "idle"
    /\ lpc = "idle"
    /\ damage = "none"
    /\ fault = "none"
    /\ calls = 0
    /\ fault' \in FaultKinds
    /\ UNCHANGED <<rPrefixB64, rIndex, rLoaded, xpc, xprefixes, wanted, regMetaByPath, xpos,
                   dest, destRoot, materialized, mtimes, lpc, listed, calls, loads,
                   ignoredFailure>>
    /\ UNCHANGED <<inputVars, writerVars, indexVars, cipherVars, cliVars>>

\* A List or Extract call has returned; the session is used for another call,
\* with a fresh DEST
NextCall ==
    /\ xpc \in {"ok", "err"} \/ lpc \in {"ok", "err"}
    /\ calls + 1 < MaxCalls
    /\ fault = "none"
    /\ calls' = calls + 1
    /\ xpc' = "idle"
    /\ lpc' = "idle"
    /\ xprefixes' = <<>>
    /\ wanted' = <<>>
    /\ regMetaByPath' = [q \in {} |-> None]
    /\ xpos' = 0
    /\ dest' = [q \in {} |-> None]
    /\ destRoot' = FALSE
    /\ materialized' = {}
    /\ mtimes' = <<>>
    /\ listed' = <<>>
    /\ ignoredFailure' = FALSE
    /\ UNCHANGED <<rPrefixB64, rIndex, rLoaded, loads, fault>>
    /\ UNCHANGED <<inputVars, writerVars, indexVars, cipherVars, cliVars>>

\* The trees archived for the reader sessions: a is a directory holding the
\* file a/b, or a symlink, or a fifo; ab is a regular file
ReaderTrees ==
    {t \in Trees : /\ t[PathA] \in {Dir, Symlink(PathAb), Fifo}
                   /\ t[PathA] = Dir => t[PathAB] = File(ContentX)
                   /\ t[PathAb] = File(ContentY)
                   /\ t[PathBS] = None}

(***************************************************************************)
(* Index.Serialize on arbitrary entry lists                                *)
(***************************************************************************)
\* a name ending in a double quote: c"
PathQ == <<99, QUOTE>>

\* The entries tried: four quoted paths, each without a hash, with a
\* lowercase hash and with the same hash in uppercase
EntryPool ==
    { IndexEntry(EscapeRaw(p), h, EscapeQuoted(p)) :
        p \in {PathA, PathAb, PathBS, PathQ}, h \in {<<>>, <<97, 98>>, <<65, 66>>} }

\* idx.Entries = append(idx.Entries, entry)
IdxAppend ==
    /\ ~sDone
    /\ Len(sEntries) < MaxEntries
    /\ \E e \in EntryPool : sEntries' = Append(sEntries, e)
    /\ UNCHANGED <<sOut, sDone, sParsed>>
    /\ UNCHANGED <<archiveVars, cipherVars, cliVars>>

\* idx.Serialize()
IdxSerialize ==
    /\ ~sDone
    /\ sOut' = Serialize(sEntries)
    /\ sDone' = TRUE
    /\ UNCHANGED <<sEntries, sParsed>>
    /\ UNCHANGED <<archiveVars, cipherVars, cliVars>>

\* scanToParseIndex's scanner loop over the serialized index
IdxParse ==
    /\ sDone
    /\ sParsed = <<>>
    /\ sParsed' = <<ParseLines(ScanLines(sOut), <<>>)>>
    /\ UNCHANGED <<sEntries, sOut, sDone>>
    /\ UNCHANGED <<archiveVars, cipherVars, cliVars>>

\* Index lines a reader may meet, well-formed or not: what stands where the
\* quoted path should be ...
IndexLineHeads ==
    { <<>>,                                        \* nothing
      <<97>>,                                      \* a
      <<QUOTE, 97>>,                               \* "a
      <<QUOTE, 97, QUOTE>>,                        \* "a"
      <<QUOTE, QUOTE>>,                            \* ""
      <<QUOTE, 98, BSLASH, BSLASH, QUOTE>>,        \* "b\\"
      <<32, QUOTE, 97, QUOTE>> }                   \* a space, then "a"

\* ... and what follows it
IndexLineTails ==
    { <<>>,                                        \* nothing
      <<EQUALS>>,                                  \* =
      <<EQUALS, 97, 98>>,                          \* =ab
      <<EQUALS, 48, 102, 57>>,                     \* =0f9
      <<EQUALS, 65, 66>>,                          \* =AB
      <<EQUALS, 122, 122>>,                        \* =zz
      <<EQUALS, 97, 98, 32, 99>>,                  \* =ab c
      <<EQUALS, EQUALS, 97>>,                      \* ==a
      <<32, EQUALS, 97, 98>>,                      \* a space, then =ab
      <<120>> }                                    \* x

IndexLinePool == {h \o t : h \in IndexLineHeads, t \in IndexLineTails}

(***************************************************************************)
(* Cipher pipeline: cbcPKCS7Writer and cbcPKCS7Reader                      *)
(***************************************************************************)
BlockSize   == 16      \* c.mode.BlockSize(): the AES block
ReadBufSize == 4096    \* the buffer Read hands to the underlying reader

\* pbkdf2.Key(password, salt, ...): the derived key and IV are abstracted as
\* one number; different passwords give different numbers
Keys == {1, 2, 17}

\* the IV half of the derived bytes
IVOf(key) == [j \in 1..BlockSize |-> (key + j) % 256]

\* One block of CBC encryption under a toy block cipher (byte j is shifted by
\* key*j): the plaintext block is combined with the chaining block, then
\* enciphered.  It is a bijection on blocks for every key, as AES is.
EncBlock(key, chain, pt) == [j \in 1..BlockSize |-> (pt[j] + chain[j] + key * j) % 256]

\* Its inverse under the key given, whatever key enciphered the block
DecBlock(key, chain, ct) ==
    [j \in 1..BlockSize |-> (ct[j] + 512 * BlockSize - chain[j] - key * j) % 256]

\* cipher.BlockMode.CryptBlocks of the CBC encrypter over whole blocks:
\* [out, chain]
RECURSIVE EncryptBlocks(_, _, _)
EncryptBlocks(key, chain, data) ==
    IF data = <<>> THEN [out |-> <<>>, chain |-> chain]
    ELSE LET c == EncBlock(key, chain, SubSeq(data, 1, BlockSize))
             r == EncryptBlocks(key, c, SubSeq(data, BlockSize + 1, Len(data)))
         IN [out |-> c \o r.out, chain |-> r.chain]

\* cipher.BlockMode.CryptBlocks of the CBC decrypter over whole blocks
RECURSIVE DecryptBlocks(_, _, _)
DecryptBlocks(key, chain, data) ==
    IF data = <<>> THEN [out |-> <<>>, chain |-> chain]
    ELSE LET c == SubSeq(data, 1, BlockSize)
             r == DecryptBlocks(key, c, SubSeq(data, BlockSize + 1, Len(data)))
         IN [out |-> DecBlock(key, chain, c) \o r.out, chain |-> r.chain]

\* The plaintexts tried: lengths around the block boundaries, filled either
\* with the byte 1 (which looks like padding) or with varying bytes
PlainLengths == {n \in 0..(MaxBlocks * BlockSize + 1) : n % BlockSize \in {0, 1, 15}}
Plaintexts ==
    {[i \in 1..n |-> 1] : n \in PlainLengths}
    \cup {[i \in 1..n |-> 200 + (i % 7)] : n \in PlainLengths}

\* Variant: the last complete block is kept back
FullBlocksKeepLast(buf) ==
    IF Len(buf) >= BlockSize THEN ((Len(buf) \div BlockSize) - 1) * BlockSize ELSE 0

\* the number of bytes of buf that form complete blocks
FullBlocks(buf) == (Len(buf) \div BlockSize) * BlockSize

\* cbcPKCS7Writer.Write(p) for the next k bytes of the plaintext
Write ==
    /\ cpc = "write"
    /\ \E k \in 1..(Len(plain) - written) :
         LET buf == wbuf \o SubSeq(plain, written + 1, written + k)
             n   == FullBlocks(buf)
             enc == EncryptBlocks(wkey, wchain, SubSeq(buf, 1, n))
         IN /\ written' = written + k
            /\ IF n = 0
               THEN /\ wbuf' = buf
                    /\ UNCHANGED <<cipherOut, wchain>>
               ELSE /\ cipherOut' = cipherOut \o enc.out
                    /\ wchain' = enc.chain
                    /\ wbuf' = SubSeq(buf, n + 1, Len(buf))
    /\ UNCHANGED <<cpc, plain, wkey, rkey, src, rbuf, rout, rfin, rchain, delivered, rerr>>
    /\ UNCHANGED <<archiveVars, indexVars, cliVars>>

\* Variant: no padding block for a buffer that ends on a block boundary
PadLenNoFullBlock(n) == (BlockSize - (n % BlockSize)) % BlockSize

\* the padding Close appends to a buffer of the given length
PadLen(n) ==
    LET padLen == BlockSize - (n % BlockSize) IN IF padLen = 0 THEN BlockSize ELSE padLen

\* cbcPKCS7Writer.Close()
Close ==
    /\ cpc = "write"
    /\ written = Len(plain)
    /\ LET padLen == PadLen(Len(wbuf))
           buf    == wbuf \o [i \in 1..padLen |-> padLen]
           enc    == EncryptBlocks(wkey, wchain, buf)
       IN /\ wbuf' = buf
          /\ cipherOut' = cipherOut \o enc.out
          /\ wchain' = enc.chain
    /\ cpc' = "closed"
    /\ UNCHANGED <<plain, wkey, written, rkey, src, rbuf, rout, rfin, rchain, delivered, rerr>>
    /\ UNCHANGED <<archiveVars, indexVars, cliVars>>

\* OpenSSLDecryptReader over the stream the writer produced, the header
\* already consumed: the key is derived from the reader's password
OpenReader ==
    /\ cpc = "closed"
    /\ \E k \in Keys :
         /\ rkey' = k
         /\ rchain' = IVOf(k)
    /\ src' = cipherOut
    /\ cpc' = "read"
    /\ UNCHANGED <<plain, wkey, written, wbuf, wchain, cipherOut, rbuf, rout, rfin,
                   delivered, rerr>>
    /\ UNCHANGED <<archiveVars, indexVars, cliVars>>

\* Variant: the content of the padding is not compared
PaddingErrorRangeOnly(dec) ==
    IF Len(dec) < BlockSize THEN "PadShort"
    ELSE LET padLen == dec[Len(dec)] IN
         IF padLen = 0 \/ padLen > BlockSize THEN "PadRange" ELSE "none"

\* Read's padding validation of the decrypted bytes: the error, or "none"
PaddingError(dec) ==
    IF Len(dec) < BlockSize THEN "PadShort"
    ELSE LET padLen == dec[Len(dec)] IN
         IF padLen = 0 \/ padLen > BlockSize THEN "PadRange"
         ELSE IF \E i \in 0..(padLen - 1) : dec[Len(dec) - i] # padLen THEN "PadContent"
         ELSE "none"

\* Variant: end-of-stream without a whole block is a clean end
NoBlockResultEOF(eof) == IF eof THEN "EOF" ELSE "none"

\* What Read returns when the buffer holds no whole block: "none" stands for
\* (0, nil), otherwise the error
NoBlockResult(eof) == IF eof THEN "UnexpectedEOF" ELSE "none"

\* A stream cut short on its way to the reader: what is left of it, up to a
\* block boundary, one byte past it or one byte before it
CutStreams(stream) ==
    {SubSeq(stream, 1, n) : n \in {k \in 0..(Len(stream) - 1) : k % BlockSize \in {0, 1, 15}}}

\* OpenSSLDecryptReader, with the writer's password, over a stream that was
\* cut short
OpenReaderCut ==
    /\ cpc = "closed"
    /\ rkey' = wkey
    /\ rchain' = IVOf(wkey)
    /\ src' \in CutStreams(cipherOut)
    /\ cpc' = "read"
    /\ UNCHANGED <<plain, wkey, written, wbuf, wchain, cipherOut, rbuf, rout, rfin,
                   delivered, rerr>>
    /\ UNCHANGED <<archiveVars, indexVars, cliVars>>

\* What the underlying reader may return for a buffer of ReadBufSize bytes:
\* some of what is left, with io.EOF either together with the last bytes or
\* alone on a later call
SourceReturns ==
    {[nr |-> n, eof |-> FALSE] : n \in 1..Min(ReadBufSize, Len(src))}
    \cup IF Len(src) <= ReadBufSize THEN {[nr |-> Len(src), eof |-> TRUE]} ELSE {}

\* The lengths of the caller's buffer p
CallerBufSizes == {1, BlockSize, ReadBufSize}

\* What Read hands to its caller out of the decrypted bytes when it returns err
ReadResult(dec, err) == IF err # "none" THEN <<>> ELSE dec

\* cbcPKCS7Reader.Read(p), called by a consumer that reads until io.EOF or an error
Read ==
    /\ cpc = "read"
    /\ \E plen \in CallerBufSizes :
         IF Len(rout) > 0
         THEN \* leftover plaintext is served first
              LET n == Min(plen, Len(rout)) IN
              /\ delivered' = delivered \o SubSeq(rout, 1, n)
              /\ rout' = SubSeq(rout, n + 1, Len(rout))
              /\ UNCHANGED <<cpc, src, rbuf, rfin, rchain, rerr>>
         ELSE IF rfin
         THEN /\ cpc' = "eof"
              /\ rerr' = "EOF"
              /\ UNCHANGED <<src, rbuf, rout, rfin, rchain, delivered>>
         ELSE \E ret \in SourceReturns :
              LET buf   == rbuf \o SubSeq(src, 1, ret.nr)
                  n     == FullBlocks(buf)
                  d     == DecryptBlocks(rkey, rchain, SubSeq(buf, 1, n))
                  perr  == IF ret.eof THEN PaddingError(d.out) ELSE "none"
                  dec   == IF ret.eof /\ perr = "none"
                           THEN SubSeq(d.out, 1, Len(d.out) - d.out[Len(d.out)])
                           ELSE ReadResult(d.out, perr)
                  nw    == Min(plen, Len(dec))
              IN /\ src' = SubSeq(src, ret.nr + 1, Len(src))
                 /\ rfin' = ret.eof
                 /\ IF n = 0
                    THEN /\ rbuf' = buf
                         /\ UNCHANGED <<rout, rchain, delivered>>
                         /\ LET r == NoBlockResult(ret.eof) IN
                            IF r = "none" THEN UNCHANGED <<cpc, rerr>>
                            ELSE /\ cpc' = IF r = "EOF" THEN "eof" ELSE "error"
                                 /\ rerr' = r
                    ELSE /\ rbuf' = SubSeq(buf, n + 1, Len(buf))
                         /\ rchain' = d.chain
                         /\ IF perr # "none"
                            THEN /\ cpc' = "error"
                                 /\ rerr' = perr
                                 /\ delivered' = delivered \o ReadResult(d.out, perr)
                                 /\ UNCHANGED rout
                            ELSE /\ delivered' = delivered \o SubSeq(dec, 1, nw)
                                 /\ rout' = SubSeq(dec, nw + 1, Len(dec))
                                 /\ IF ret.eof /\ Len(dec) = 0
                                    THEN cpc' = "eof" /\ rerr' = "EOF"
                                    ELSE UNCHANGED <<cpc, rerr>>
    /\ UNCHANGED <<plain, wkey, written, wbuf, wchain, cipherOut, rkey>>
    /\ UNCHANGED <<archiveVars, indexVars, cliVars>>

(***************************************************************************)
(* The command line: RunCLI                                                *)
(***************************************************************************)
aliasesCreate  == {"c", "-c", "create", "--create"}
aliasesList    == {"l", "-l", "ls", "--ls"}
aliasesExtract == {"x", "-x", "extract", "--extract"}
aliasesHelp    == {"h", "-h", "help", "--help"}

\* len(argv), the program name included
LenArgv(argv) == 1 + Len(argv.cmd) + Len(argv.args)

\* os.Getenv: the value of the variable, "" when it is not set
Getenv(env) == IF env = <<>> THEN "" ELSE env[1]

\* Variant: the password is not checked
PassMissingNever(pass) == FALSE

\* pass == ""
PassMissing(pass) == pass = ""

CLIError == [result |-> "err", call |-> "none"]

\* []byte(pass) for the passwords of the model
PassBytes(pass) == IF pass = "secret" THEN <<115, 101, 99, 114, 101, 116>> ELSE <<>>

\* Variant: Close leaves the buffer as it is
SessionCloseKeeps(buf) == buf

\* ArchiveReader.Close and ArchiveWriter.Close: every byte of the password
\* buffer is set to zero
SessionClose(buf) == [i \in 1..Len(buf) |-> 0]

\* RunCLI up to the call it hands over to: [result, call].  The usage check
\* of each command comes before its password check.
Dispatch(argv, env) ==
    IF LenArgv(argv) < 2 \/ argv.cmd[1] \in aliasesHelp
    THEN [result |-> "nil", call |-> "none"]              \* printHelp()
    ELSE LET cmd == argv.cmd[1] IN
         IF cmd \in aliasesCreate
         THEN IF LenArgv(argv) < 4 THEN CLIError
              ELSE IF PassMissing(Getenv(env)) THEN CLIError
              ELSE [result |-> "running", call |-> "create"]
         ELSE IF cmd \in aliasesList
         THEN IF LenArgv(argv) < 3 THEN CLIError
              ELSE IF PassMissing(Getenv(env)) THEN CLIError
              ELSE [result |-> "running", call |-> "ls"]
         ELSE IF cmd \in aliasesExtract
         THEN IF LenArgv(argv) < 4 THEN CLIError
              ELSE IF PassMissing(Getenv(env)) THEN CLIError
              ELSE [result |-> "running", call |-> "extract"]
         ELSE CLIError                                     \* unknown command

\* The trees the command-line runs work on: those of the reader sessions, and
\* the same with ab holding the content of a/b, or being of an unsupported
\* type
CLITrees ==
    {t \in Trees : /\ t[PathA] \in {Dir, Symlink(PathAb), Fifo}
                   /\ t[PathA] = Dir => t[PathAB] = File(ContentX)
                   /\ t[PathAb] \in {File(ContentX), File(ContentY), Special}
                   /\ t[PathBS] = None}

\* The archive and destination arguments
ArchiveArg == <<122>>
DestArg    == <<100>>

\* The command lines tried: no command; every alias and an unknown word with
\* too few arguments; every alias with the arguments of its command
ArgvPool ==
    {[cmd |-> <<>>, args |-> <<>>]}
    \cup {[cmd |-> <<c>>, args |-> a] :
            c \in aliasesCreate \cup aliasesList \cup aliasesExtract \cup aliasesHelp
                  \cup {"bogus"},
            a \in {<<>>, <<ArchiveArg>>}}
    \cup {[cmd |-> <<c>>, args |-> <<ArchiveArg>> \o ins] :
            c \in aliasesCreate, ins \in {<< <<97, SLASH>> >>, << <<97, SLASH>>, PathAb >>}}
    \cup {[cmd |-> <<c>>, args |-> <<ArchiveArg>> \o pf] :
            c \in aliasesList, pf \in {<<PathA>>}}
    \cup {[cmd |-> <<c>>, args |-> <<ArchiveArg, DestArg>> \o pf] :
            c \in aliasesExtract, pf \in {<<>>, <<PathA>>}}

\* ARKIV_PASS unset, set to the empty string, set to a password
EnvPool == {<<>>, <<"">>, <<"secret">>}

\* One run of the program, up to the call it makes.  A create run constructs
\* the writer over argv[3:]; an ls or extract run constructs a reader over an
\* archive that a create run has left.  The runs follow one another until
\* one of them returns an error.
RunCLI ==
    /\ cliCall = "none"
    /\ cliResult # "err"
    /\ \E argv \in ArgvPool, env \in EnvPool :
         LET d == Dispatch(argv, env) IN
         /\ cliArgv' = argv
         /\ cliEnv' = env
         /\ cliCall' = d.call
         /\ cliResult' = d.result
         /\ password' = IF d.call = "none" THEN <<>>     \* NewArchiveWriter/Reader
                        ELSE PassBytes(Getenv(env))
         /\ IF d.call = "create"
            THEN /\ wpc = "off"
                 /\ wpc' = "init"                         \* NewArchiveWriter
                 /\ inputs' = Tail(argv.args)
            ELSE /\ d.call # "none" => (wpc \in {"done", "failed"} /\ xpc = "idle" /\ lpc = "idle")
                 /\ UNCHANGED <<wpc, inputs>>
    /\ UNCHANGED <<fs, tar, prefixB64, paths, idx, dataWritten, foreign, damage>>
    /\ UNCHANGED <<readerVars, indexVars, cipherVars>>

\* The steps of the call a run is waiting for
CLICreateOpen  == cliCall = "create" /\ CreateOpen
CLICreatePath  == cliCall = "create" /\ CreatePath
CLICreateIndex == cliCall = "create" /\ CreateIndex
CLIList ==
    /\ cliCall = "ls"
    /\ List
    /\ xprefixes' = Tail(cliArgv.args)                    \* argv[3:]
CLIExtractStart ==
    /\ cliCall = "extract"
    /\ ExtractStart
    /\ xprefixes' = Tail(Tail(cliArgv.args))              \* argv[4:]
CLIExtractMember == cliCall = "extract" /\ ExtractMember
CLIExtractEnd    == cliCall = "extract" /\ ExtractEnd

\* RunCLI returns what the call returned; the deferred Close of the session
\* runs on the way out
CLIReturn ==
    /\ cliCall # "none"
    /\ LET pc == IF cliCall = "create" THEN wpc
                 ELSE IF cliCall = "ls" THEN lpc ELSE xpc
       IN /\ pc \in {"done", "ok", "failed", "err"}
          /\ cliResult' = IF pc \in {"done", "ok"} THEN "nil" ELSE "err"
    /\ cliCall' = "none"
    /\ password' = SessionClose(password)
    /\ UNCHANGED <<cliArgv, cliEnv, archiveVars, indexVars, cipherVars>>

(***************************************************************************)
(* Initial states and specifications                                       *)
(***************************************************************************)
NoObjects == [q \in {} |-> None]

ArchiveIdle ==
    /\ fs = [p \in UPaths |-> None]
    /\ inputs = <<>>
    /\ wpc = "off"
    /\ tar = <<>>
    /\ prefixB64 = <<>>
    /\ paths = <<>>
    /\ idx = <<>>
    /\ dataWritten = {}
    /\ foreign = FALSE
    /\ damage = "none"
    /\ rPrefixB64 = <<>>
    /\ rIndex = <<>>
    /\ rLoaded = FALSE
    /\ xpc = "idle"
    /\ xprefixes = <<>>
    /\ wanted = <<>>
    /\ regMetaByPath = NoObjects
    /\ xpos = 0
    /\ dest = NoObjects
    /\ destRoot = FALSE
    /\ materialized = {}
    /\ mtimes = <<>>
    /\ lpc = "idle"
    /\ listed = <<>>
    /\ calls = 0
    /\ loads = 0
    /\ fault = "none"
    /\ ignoredFailure = FALSE

IndexIdle ==
    /\ sEntries = <<>>
    /\ sOut = <<>>
    /\ sDone = FALSE
    /\ sParsed = <<>>

CLIIdle ==
    /\ cliArgv = [cmd |-> <<>>, args |-> <<>>]
    /\ cliEnv = <<>>
    /\ cliCall = "none"
    /\ cliResult = "none"
    /\ password = <<>>

CipherIdle ==
    /\ cpc = "off"
    /\ plain = <<>>
    /\ wkey = 1
    /\ written = 0
    /\ wbuf = <<>>
    /\ wchain = IVOf(1)
    /\ cipherOut = <<>>
    /\ rkey = 1
    /\ src = <<>>
    /\ rbuf = <<>>
    /\ rout = <<>>
    /\ rfin = FALSE
    /\ rchain = IVOf(1)
    /\ delivered = <<>>
    /\ rerr = "none"

\* A writer about to start; a reader session not yet loaded; an empty
\* destination
ArchiveStart ==
    /\ wpc = "init"
    /\ tar = <<>>
    /\ prefixB64 = <<>>
    /\ paths = <<>>
    /\ idx = <<>>
    /\ dataWritten = {}
    /\ foreign = FALSE
    /\ damage = "none"
    /\ rPrefixB64 = <<>>
    /\ rIndex = <<>>
    /\ rLoaded = FALSE
    /\ xpc = "idle"
    /\ xprefixes = <<>>
    /\ wanted = <<>>
    /\ regMetaByPath = NoObjects
    /\ xpos = 0
    /\ dest = NoObjects
    /\ destRoot = FALSE
    /\ materialized = {}
    /\ mtimes = <<>>
    /\ lpc = "idle"
    /\ listed = <<>>
    /\ calls = 0
    /\ loads = 0
    /\ fault = "none"
    /\ ignoredFailure = FALSE

\* A writer session over an input tree and an input list; a reader session
\* not yet loaded; an empty destination
Init ==
    /\ fs \in Trees
    /\ inputs \in InputLists
    /\ ArchiveStart
    /\ IndexIdle
    /\ CipherIdle
    /\ CLIIdle

Next ==
    \/ CreateOpen
    \/ CreatePath
    \/ CreateIndex
    \/ ForeignOrder
    \/ ExtractStart
    \/ ExtractMember
    \/ ExtractEnd
    \/ List

Spec == Init /\ [][Next]_vars

\* The same writer and reader over the trees with objects outside the working
\* directory; the input arguments are "../c", "/e" and "a/", in lists of
\* non-decreasing order
InitOutside ==
    /\ fs \in OutsideTrees
    /\ inputs \in {s \in SeqsUpTo({PathUp, PathAbs, <<97, SLASH>>}, MaxInputs) :
                     \A i \in 1..(Len(s) - 1) :
                        s[i] = s[i + 1] \/ BytesLess(s[i], s[i + 1])}
    /\ ArchiveStart
    /\ IndexIdle
    /\ CipherIdle
    /\ CLIIdle

SpecOutside == InitOutside /\ [][Next]_vars

\* A writer session over one of the reader trees, with the arguments a/ and
\* ab; a reader session just created
InitReader ==
    /\ fs \in ReaderTrees
    /\ inputs = << <<97, SLASH>>, PathAb >>
    /\ wpc = "init"
    /\ tar = <<>>
    /\ prefixB64 = <<>>
    /\ paths = <<>>
    /\ idx = <<>>
    /\ dataWritten = {}
    /\ foreign = FALSE
    /\ damage = "none"
    /\ rPrefixB64 = <<>>
    /\ rIndex = <<>>
    /\ rLoaded = FALSE
    /\ xpc = "idle"
    /\ xprefixes = <<>>
    /\ wanted = <<>>
    /\ regMetaByPath = NoObjects
    /\ xpos = 0
    /\ dest = NoObjects
    /\ destRoot = FALSE
    /\ materialized = {}
    /\ mtimes = <<>>
    /\ lpc = "idle"
    /\ listed = <<>>
    /\ calls = 0
    /\ loads = 0
    /\ fault = "none"
    /\ ignoredFailure = FALSE
    /\ IndexIdle
    /\ CipherIdle
    /\ CLIIdle

NextReader ==
    \/ CreateOpen
    \/ CreatePath
    \/ CreateIndex
    \/ Damage
    \/ InjectFault
    \/ ExtractStart
    \/ ExtractMember
    \/ ExtractEnd
    \/ List
    \/ NextCall

SpecReader == InitReader /\ [][NextReader]_vars

\* No archive yet, over one of the reader trees; no run of the program yet
InitCLI ==
    /\ fs \in CLITrees
    /\ inputs = <<>>
    /\ wpc = "off"
    /\ tar = <<>>
    /\ prefixB64 = <<>>
    /\ paths = <<>>
    /\ idx = <<>>
    /\ dataWritten = {}
    /\ foreign = FALSE
    /\ damage = "none"
    /\ rPrefixB64 = <<>>
    /\ rIndex = <<>>
    /\ rLoaded = FALSE
    /\ xpc = "idle"
    /\ xprefixes = <<>>
    /\ wanted = <<>>
    /\ regMetaByPath = NoObjects
    /\ xpos = 0
    /\ dest = NoObjects
    /\ destRoot = FALSE
    /\ materialized = {}
    /\ mtimes = <<>>
    /\ lpc = "idle"
    /\ listed = <<>>
    /\ calls = 0
    /\ loads = 0
    /\ fault = "none"
    /\ ignoredFailure = FALSE
    /\ IndexIdle
    /\ CipherIdle
    /\ CLIIdle

NextCLI ==
    \/ RunCLI
    \/ CLICreateOpen
    \/ CLICreatePath
    \/ CLICreateIndex
    \/ CLIList
    \/ CLIExtractStart
    \/ CLIExtractMember
    \/ CLIExtractEnd
    \/ CLIReturn

SpecCLI == InitCLI /\ [][NextCLI]_vars

InitIndex == ArchiveIdle /\ IndexIdle /\ CipherIdle /\ CLIIdle

NextIndex == IdxAppend \/ IdxSerialize \/ IdxParse

SpecIndex == InitIndex /\ [][NextIndex]_vars

\* An index of one line from the pool, about to be parsed
InitParse ==
    /\ ArchiveIdle
    /\ sEntries = <<>>
    /\ \E l \in IndexLinePool : sOut = l \o <<LF>>
    /\ sDone = TRUE
    /\ sParsed = <<>>
    /\ CipherIdle
    /\ CLIIdle

NextParse == IdxParse

SpecParse == InitParse /\ [][NextParse]_vars

\* An encrypt writer just constructed (header written, key derived) and a
\* plaintext to pass through it
InitCipher ==
    /\ ArchiveIdle
    /\ IndexIdle
    /\ cpc = "write"
    /\ plain \in Plaintexts
    /\ wkey = 1
    /\ written = 0
    /\ wbuf = <<>>
    /\ wchain = IVOf(1)
    /\ cipherOut = <<>>
    /\ rkey = 1
    /\ src = <<>>
    /\ rbuf = <<>>
    /\ rout = <<>>
    /\ rfin = FALSE
    /\ rchain = IVOf(1)
    /\ delivered = <<>>
    /\ rerr = "none"
    /\ CLIIdle

NextCipher == Write \/ Close \/ OpenReader \/ Read

SpecCipher == InitCipher /\ [][NextCipher]_vars

\* The same pipeline, the reader being given either the whole stream or a
\* stream cut short
NextCipherCut == Write \/ Close \/ OpenReader \/ OpenReaderCut \/ Read

SpecCipherCut == InitCipher /\ [][NextCipherCut]_vars

(***************************************************************************)
(* Vocabulary of the properties                                            *)
(***************************************************************************)
\* Unsigned byte order on byte strings, stated directly: a is a proper prefix
\* of b, or at the first position where they differ a has the smaller byte
ByteOrderLess(a, b) ==
    \/ Len(a) < Len(b) /\ \A i \in 1..Len(a) : a[i] = b[i]
    \/ \E k \in 1..Min(Len(a), Len(b)) :
          /\ \A i \in 1..(k - 1) : a[i] = b[i]
          /\ a[k] < b[k]

\* The pieces of a byte string between its line-feeds (none for the empty string)
SplitLF(b) ==
    IF b = <<>> THEN <<>>
    ELSE LET P == {i \in 1..Len(b) : b[i] = LF}
             n == Cardinality(P)
             cut == [k \in 0..(n + 1) |->
                        IF k = 0 THEN 0
                        ELSE IF k = n + 1 THEN Len(b) + 1
                        ELSE CHOOSE i \in P : Cardinality({j \in P : j <= i}) = k]
         IN [k \in 1..(n + 1) |-> SubSeq(b, cut[k - 1] + 1, cut[k] - 1)]

\* The position of the last double quote of a line (0 when there is none)
LastQuote(line) ==
    LET Q == {i \in 1..Len(line) : line[i] = QUOTE} IN
    IF Q = {} THEN 0 ELSE CHOOSE i \in Q : \A j \in Q : j <= i

\* P and H of an index line "P" or "P"=H
LinePath(line) == SubSeq(line, 2, LastQuote(line) - 1)
LineHash(line) == SubSeq(line, LastQuote(line) + 2, Len(line))

\* The index lines stored in the last member of the archive
ArchiveIndexLines == SplitLF(Unseal(tar[Len(tar)].payload))

\* The paths Create was asked to archive: every input and, below an input that
\* is a directory, everything in it
Archived ==
    {p \in UPaths :
        /\ fs[p] # None
        /\ \E i \in 1..Len(inputs) :
              LET r == Clean(inputs[i]) IN
              p = r \/ (fs[r] = Dir /\ HasPrefix(p, r \o <<SLASH>>))}

ArchivedFiles == {p \in Archived : fs[p].kind = "f"}

\* The positions of the data members in the archive
DataMemberPositions == {i \in 1..Len(tar) : tar[i].name[1] = "data"}

\* The hashes of the index lines for a path on disk
LineHashesOf(lines, p) ==
    {LineHash(lines[i]) : i \in {j \in 1..Len(lines) : LinePath(lines[j]) = EscapeRaw(p)}}

\* The names of the members between the prefix and the index
InnerNames == {tar[i].name : i \in 3..(Len(tar) - 1)}

(***************************************************************************)
(* Properties of the archive writer and reader (specification Spec)        *)
(***************************************************************************)
\* C1: Create followed by Extract with no prefixes into a fresh directory
\* succeeds and restores every archived path with the type, symlink target and
\* file bytes it has in the input tree, and nothing but those paths and their
\* parent directories.
C1_RoundTrip ==
    (wpc = "done" /\ ~foreign /\ xprefixes = <<>> /\ xpc \in {"ok", "err"}) =>
        /\ xpc = "ok"
        /\ \A p \in Archived : p \in DOMAIN dest /\ dest[p] = fs[p]
        /\ \A q \in DOMAIN dest :
              q \in Archived \/ \E p \in Archived : q \in Ancestors(p)

\* C2: once Extract has gone past a data member that two or more selected
\* entries wait for (each with its deferred meta header, or Extract would have
\* failed), every one of their output files holds the complete content of
\* the member.
C2_SharedDataComplete ==
    \A i \in 3..Len(tar) :
        (xpc \in {"loop", "ok"} /\ i < xpos /\ tar[i].name[1] = "data"
            /\ Len(DataNeedsOf(wanted, tar[i].name)) >= 2) =>
        \A j \in 1..Len(DataNeedsOf(wanted, tar[i].name)) :
            LET out == toOutPath(DataNeedsOf(wanted, tar[i].name)[j].PathRaw) IN
            /\ out \in DOMAIN dest
            /\ dest[out] = File(Unseal(tar[i].payload))

\* C3: an archive written by a successful Create over n regular files with k
\* distinct contents has exactly k data members, and the index lines of files
\* with the same content carry one and the same data hash.
C3_DataMembersPerContent ==
    wpc = "done" =>
        LET lines == ArchiveIndexLines
            files == ArchivedFiles
            hashes == [p \in files |-> LineHashesOf(lines, p)]
        IN /\ Cardinality(DataMemberPositions) = Cardinality({fs[p].content : p \in files})
           /\ \A p \in files : Cardinality(hashes[p]) = 1 /\ <<>> \notin hashes[p]
           /\ \A p, q \in files : fs[p].content = fs[q].content => hashes[p] = hashes[q]

\* C3 witness: a finished archive of two regular files with the same content
C3_Witness ==
    /\ wpc = "done"
    /\ Cardinality(ArchivedFiles) = 2
    /\ Cardinality({fs[p].content : p \in ArchivedFiles}) = 1

\* C4: in an archive written by a successful Create, every index line has its
\* meta member named by the name hash of its path under the salt of the prefix
\* member, every line with a hash has its data member, and every meta or data
\* member is named by some index line.
C4_HashLinkage ==
    wpc = "done" =>
        LET salt  == Base64(Unseal(tar[2].payload))
            lines == ArchiveIndexLines
            names == InnerNames
            metaOf == [i \in 1..Len(lines) |-> MetaName(computeNameHash(salt, LinePath(lines[i])))]
            hashOf == [i \in 1..Len(lines) |-> LineHash(lines[i])]
        IN /\ \A i \in 1..Len(lines) :
                 /\ metaOf[i] \in names
                 /\ hashOf[i] # <<>> => DataName(hashOf[i]) \in names
           /\ \A nm \in names :
                 \E i \in 1..Len(lines) :
                    \/ nm = metaOf[i]
                    \/ hashOf[i] # <<>> /\ nm = DataName(hashOf[i])

\* C4 witness: a finished archive whose index has a line without a hash, a
\* line with a hash, and a line for a path that needs escaping
C4_Witness ==
    /\ wpc = "done"
    /\ LET lines == ArchiveIndexLines IN
       /\ \E i \in 1..Len(lines) : LineHash(lines[i]) = <<>>
       /\ \E j \in 1..Len(lines) : LineHash(lines[j]) # <<>>
       /\ \E k \in 1..Len(lines) : \E n \in 1..Len(LinePath(lines[k])) : LinePath(lines[k])[n] = BSLASH

\* C6: in an archive written by a successful Create the first member is the
\* magic, the second the prefix, the last the index, and the meta and data
\* members are exactly the members strictly between the prefix and the index.
C6_MemberOrder ==
    wpc = "done" =>
        /\ Len(tar) >= 3
        /\ tar[1].name = MagicName
        /\ tar[2].name = PrefixName
        /\ tar[Len(tar)].name = IndexName
        /\ \A i \in 1..Len(tar) :
              tar[i].name[1] \in {"meta", "data"} <=> (2 < i /\ i < Len(tar))

\* C6 witness: a finished archive, as Create wrote it, with meta and data members
C6_Witness ==
    /\ wpc = "done"
    /\ ~foreign
    /\ \E i, j \in 3..(Len(tar) - 1) : tar[i].name[1] = "meta" /\ tar[j].name[1] = "data"

\* C7: a successful Extract with the single prefix Q materializes an index
\* entry if and only if Q is a textual prefix of the entry's raw path, and
\* creates nothing besides those entries and their parent directories.
C7_TextualPrefix ==
    (xpc = "ok" /\ Len(xprefixes) = 1) =>
        /\ \A i \in 1..Len(rIndex) :
              rIndex[i].PathRaw \in materialized <=> HasPrefix(rIndex[i].PathRaw, xprefixes[1])
        /\ \A q \in DOMAIN dest :
              \E r \in materialized : q = toOutPath(r) \/ q \in Ancestors(toOutPath(r))

\* C8: when the prefix argument of Extract or List names a path of the
\* archive, the entries selected are that path and the paths beneath it, and
\* no other (not a sibling whose name merely starts with the argument).
C8_SubtreeSelection ==
    ((xpc # "idle" \/ lpc # "idle") /\ rLoaded /\ Len(xprefixes) = 1
        /\ \E i \in 1..Len(rIndex) : rIndex[i].PathRaw = xprefixes[1]) =>
        \A i \in 1..Len(rIndex) :
            (\E j \in 1..Len(wanted) : wanted[j] = rIndex[i])
            <=> \/ rIndex[i].PathRaw = xprefixes[1]
                \/ HasPrefix(rIndex[i].PathRaw, xprefixes[1] \o <<SLASH>>)

\* C12: every entry Extract materializes is found in the destination under
\* the name the path has on disk, with the type it has on disk.
C12_OriginalName ==
    (wpc = "done" /\ xpc = "ok") =>
        \A p \in Archived :
            EscapeRaw(p) \in materialized => (p \in DOMAIN dest /\ dest[p].kind = fs[p].kind)

\* C13: over an archive that holds the meta member and the data member of
\* every selected regular file, in whatever order, Extract does not fail and
\* every selected regular file is restored.
C13_EitherOrder ==
    (/\ wpc = "done"
     /\ xpc \in {"ok", "err"}
     /\ \A i \in 1..Len(wanted) :
           /\ MetaNameOf(rPrefixB64, wanted[i]) \in InnerNames
           /\ wanted[i].HashData # <<>> => DataName(wanted[i].HashData) \in InnerNames)
    => /\ xpc = "ok"
       /\ \A i \in 1..Len(wanted) :
             wanted[i].HashData # <<>> => wanted[i].PathRaw \in materialized

MetaPositions(p) ==
    {i \in 1..Len(tar) :
        tar[i].name = MetaName(computeNameHash(prefixB64, EscapeRaw(p)))}

\* C18: whatever the inputs (repeated, or nested in one another), a
\* successful Create emits exactly one meta member and one index line for
\* each distinct visited path and no others, and the meta members follow one
\* another in ascending byte order of the paths.
C18_OnePerPath ==
    (wpc = "done" /\ ~foreign) =>
        LET lines == ArchiveIndexLines IN
        /\ \A p \in Archived : Cardinality(MetaPositions(p)) = 1
        /\ Cardinality({i \in 1..Len(tar) : tar[i].name[1] = "meta"}) = Cardinality(Archived)
        /\ \A p \in Archived :
              Cardinality({j \in 1..Len(lines) : LinePath(lines[j]) = EscapeRaw(p)}) = 1
        /\ Len(lines) = Cardinality(Archived)
        /\ \A p, q \in Archived :
              ByteOrderLess(p, q) =>
                  \A i \in MetaPositions(p), j \in MetaPositions(q) : i < j

\* An archive of a directory given together with a file inside it, so that
\* the walks visit that file twice
C18_Witness ==
    /\ wpc = "done"
    /\ ~foreign
    /\ inputs = << <<97, SLASH>>, PathAB >>
    /\ fs[PathA] = Dir
    /\ fs[PathAB] # None
    /\ Len(WalkInputs(inputs, <<>>).visited) > Cardinality(Archived)

\* C22: in an archive written by Create, the meta member of every regular
\* file comes before the data member that holds the file's content, also when
\* an earlier path has the same content.
C22_MetaBeforeData ==
    (wpc = "done" /\ ~foreign) =>
        \A p \in ArchivedFiles :
            \A i \in MetaPositions(p), j \in 1..Len(tar) :
                tar[j].name = DataName(computeDataHash(prefixB64, fs[p].content)) => i < j

\* The entries waiting for the outer member at position pos that have no
\* deferred meta header
WaitingWithoutMeta(pos) ==
    LET waiting == DataNeedsOf(wanted, tar[pos].name) IN
    {waiting[i].PathRaw : i \in {k \in 1..Len(waiting) :
                                   waiting[k].PathRaw \notin DOMAIN regMetaByPath}}

\* C23: when Extract reaches a data member for which a waiting entry has no
\* deferred meta header, it returns an error, and no output file exists for
\* that entry.
C23_MissingMetaFatal ==
    [][ (/\ xpc = "loop"
         /\ xpos <= Len(tar)
         /\ tar[xpos].name[1] = "data"
         /\ WaitingWithoutMeta(xpos) # {})
        => /\ xpc' = "err"
           /\ \A raw \in WaitingWithoutMeta(xpos) : toOutPath(raw) \notin DOMAIN dest' ]_vars

\* Extract stopped at a data member for which an entry had no deferred header
C23_Witness ==
    /\ xpc = "err"
    /\ xpos > 3
    /\ xpos - 1 <= Len(tar)
    /\ tar[xpos - 1].name[1] = "data"
    /\ WaitingWithoutMeta(xpos - 1) # {}
    /\ \A raw \in WaitingWithoutMeta(xpos - 1) : toOutPath(raw) \notin DOMAIN dest

\* Whether a non-empty prefix list matches no archived path, be it compared
\* with the path on disk, with its escaped form in the index, or with that
\* form escaped once more
SelectsNothing(prefixes) ==
    /\ prefixes # <<>>
    /\ \A p \in Archived :
          \A k \in 1..Len(prefixes) :
              /\ ~HasPrefix(p, prefixes[k])
              /\ ~HasPrefix(EscapeRaw(p), prefixes[k])
              /\ ~HasPrefix(EscapeRaw(EscapeRaw(p)), prefixes[k])

\* C29: an Extract call whose prefixes match no index entry returns success
\* at once: the destination tree and root are as they were and the second
\* pass over the archive is not started.
C29_EmptySelectionNoOp ==
    [][ (/\ wpc = "done"
         /\ xpc = "idle"
         /\ xpc' # "idle"
         /\ SelectsNothing(xprefixes'))
        => /\ xpc' = "ok"
           /\ dest' = dest
           /\ destRoot' = destRoot
           /\ xpos' = xpos
           /\ materialized' = materialized ]_vars

\* Extract returned success for the prefix "c" over an archive with entries,
\* none of which it matches; DEST does not exist
C29_Witness ==
    /\ wpc = "done"
    /\ xpc = "ok"
    /\ xprefixes = <<<<99>>>>
    /\ rIndex # <<>>
    /\ wanted = <<>>
    /\ xpos = 0
    /\ ~destRoot
    /\ dest = NoObjects

\* C30: after a successful Extract the destination root exists, whatever was
\* selected.
C30_DestRootExists ==
    xpc = "ok" => destRoot

\* C31: after a successful Extract of the whole archive every extracted
\* directory carries the modification time stored in its meta header, the
\* directories that received entries later in the same extraction included.
C31_DirectoryMtimes ==
    xpc = "ok" /\ xprefixes = <<>> =>
        \A raw \in materialized :
            dest[toOutPath(raw)].kind = "d" => mtimes[toOutPath(raw)] = "stored"

\* C36: over the archive file left by a Create that aborted before it
\* emitted the index, List and Extract return an error: no call returns nil,
\* nothing is printed, nothing is created under DEST, and the session holds
\* no index.
C36_AbortedArchiveRejected ==
    wpc = "failed" =>
        /\ xpc \in {"idle", "err"}
        /\ lpc \in {"idle", "err"}
        /\ listed = <<>>
        /\ dest = NoObjects
        /\ ~destRoot
        /\ ~rLoaded
        /\ rIndex = <<>>

\* Extract has returned an error over the file of a Create that aborted after
\* it had emitted a meta and a data member
C36_Witness ==
    /\ wpc = "failed"
    /\ \E i \in 1..Len(tar) : tar[i].name[1] = "meta"
    /\ \E i \in 1..Len(tar) : tar[i].name[1] = "data"
    /\ \A i \in 1..Len(tar) : tar[i].name # <<"index.zst.aes", <<>>>>
    /\ xpc = "err"
    /\ dest = NoObjects

\* C37: when Extract returns an error from its pass over the outer tar, every
\* object made under DEST from the members before the failing one is still
\* there, unchanged; and once it has returned the error, no further member is
\* read and nothing more is made.
C37_NoRollback ==
    [][ /\ (xpc = "loop" /\ xpc' = "err")
            => \A q \in DOMAIN dest : q \in DOMAIN dest' /\ dest'[q] = dest[q]
        /\ xpc = "err"
            => /\ xpc' = "err"
               /\ dest' = dest
               /\ materialized' = materialized
               /\ xpos' = xpos ]_vars

\* Extract has failed at a member that is not the last one, after it made
\* objects under DEST: they are there, and a selected entry is not
C37_Witness ==
    /\ xpc = "err"
    /\ xpos <= Len(tar)
    /\ materialized # {}
    /\ \A raw \in materialized : toOutPath(raw) \in DOMAIN dest
    /\ \E i \in 1..Len(wanted) : wanted[i].PathRaw \notin materialized

(***************************************************************************)
(* Properties over inputs outside the working directory (specification     *)
(* SpecOutside)                                                            *)
(***************************************************************************)
\* An out path, relative to DEST, that names DEST or an object below it
InsideDest(q) ==
    /\ q # DestParent
    /\ ~HasPrefix(q, DestParent \o <<SLASH>>)
    /\ (q # <<>> => q[1] # SLASH)

\* C32: every object Extract creates lies inside DEST, for every archive
\* Create can produce, the archives of absolute input paths and of input
\* paths with '..' elements included.
C32_InsideDest ==
    \A q \in DOMAIN dest : InsideDest(q)

(***************************************************************************)
(* Properties of reader sessions (specification SpecReader)                *)
(***************************************************************************)
\* C14: Extract does not return success when a selected entry carries a data
\* hash and the archive has no data member of that name.
C14_MissingDataFatal ==
    xpc = "ok" =>
        \A i \in 1..Len(wanted) :
            wanted[i].HashData # <<>> =>
                \E k \in 1..Len(tar) : tar[k].name = DataName(wanted[i].HashData)

\* C15: Extract does not return success after a chmod, mkdir, file creation,
\* write, symlink or fifo creation failed while it materialized an entry.
C15_FailuresFatal ==
    xpc = "ok" => ~ignoredFailure

\* Whether the first two members of the archive file are a magic.zst holding
\* arkiv001 and a prefix.zst.aes holding 8 bytes
PrologueValid ==
    /\ Len(tar) >= 2
    /\ tar[1].name = <<"magic.zst", <<>>>>
    /\ tar[1].payload = Zstd(<<97, 114, 107, 105, 118, 48, 48, 49>>)
    /\ tar[2].name = <<"prefix.zst.aes", <<>>>>
    /\ Len(Unseal(tar[2].payload)) = 8

\* A step in which a List or Extract call begins
CallBegins == xpc = "idle" /\ lpc = "idle" /\ (xpc' # "idle" \/ lpc' # "idle")

\* C19: a call that has to load, over an archive file whose first two members
\* are not a magic.zst holding exactly arkiv001 followed by a prefix.zst.aes
\* holding exactly 8 bytes, returns an error, and the session then holds no
\* index and no salt.
C19_PrologueChecked ==
    [][ (CallBegins /\ ~rLoaded /\ ~PrologueValid)
        => /\ xpc' = "err" \/ lpc' = "err"
           /\ ~rLoaded'
           /\ rIndex' = <<>>
           /\ rPrefixB64' = <<>>
           /\ wanted' = <<>> ]_vars

\* A call failed to load an archive whose prefix member holds 7 bytes
C19_Witness ==
    /\ damage = "shortprefix"
    /\ xpc = "err" \/ lpc = "err"
    /\ loads = 1
    /\ ~rLoaded
    /\ rPrefixB64 = <<>>

\* C20: a session that made no call has not opened the archive; a call on a
\* session that holds no salt and index opens the archive once to load them;
\* once they are held, no step loads again or changes them.
C20_LoadOnce ==
    [][ /\ (calls = 0 /\ xpc = "idle" /\ lpc = "idle") => (loads = 0 /\ ~rLoaded)
        /\ (CallBegins /\ ~rLoaded)
              => (loads' = loads + 1 /\ (PrologueValid /\ damage = "none" => rLoaded'))
        /\ rLoaded
              => /\ loads' = loads
                 /\ rLoaded'
                 /\ rIndex' = rIndex
                 /\ rPrefixB64' = rPrefixB64 ]_vars

\* A second call on a loaded session returned successfully although the magic
\* member had been replaced after the first call: it was not read again
C20_Witness ==
    /\ calls = 1
    /\ damage = "badmagic"
    /\ xpc = "ok" \/ lpc = "ok"
    /\ wanted # <<>>
    /\ rLoaded
    /\ loads = 1

\* Whether the archive file has no index member after its first two members,
\* or has one whose text holds a non-empty line without a quote
IndexBroken ==
    LET at == {i \in 3..Len(tar) : tar[i].name = <<"index.zst.aes", <<>>>>} IN
    \/ at = {}
    \/ LET first == CHOOSE i \in at : \A j \in at : i <= j
           lines == SplitLF(Unseal(tar[first].payload))
       IN \E n \in 1..Len(lines) :
             /\ lines[n] # <<>>
             /\ \A k \in 1..Len(lines[n]) : lines[n][k] # QUOTE

\* C35: a call on a session that holds no salt and index attempts the whole
\* load; over an archive file whose magic, prefix or index cannot be read the
\* call returns an error; and after the call the session holds either both
\* the salt and the index or, the call having failed, neither of them.
C35_FailedLoadKeepsNothing ==
    [][ (CallBegins /\ ~rLoaded)
        => /\ loads' = loads + 1
           /\ (~PrologueValid \/ IndexBroken) => (xpc' = "err" \/ lpc' = "err")
           /\ \/ rLoaded' /\ rPrefixB64' # <<>>
              \/ /\ xpc' = "err" \/ lpc' = "err"
                 /\ ~rLoaded'
                 /\ rIndex' = <<>>
                 /\ rPrefixB64' = <<>> ]_vars

\* The second call on a session has failed to load, as the first did, an
\* archive file whose index holds a line without quotes: both calls read the
\* archive, and the session holds neither the salt nor an index
C35_Witness ==
    /\ damage = "badindex"
    /\ calls = 1
    /\ loads = 2
    /\ xpc = "err" \/ lpc = "err"
    /\ ~rLoaded
    /\ rIndex = <<>>
    /\ rPrefixB64 = <<>>

\* Whether the meta member of a selected entry is in the archive file
MetaPresent(e) == \E k \in 1..Len(tar) : tar[k].name = MetaNameOf(rPrefixB64, e)

\* C34: a List call that returns nil has printed exactly one line per selected
\* index entry, in index order; a List call over an archive file that lacks
\* the meta member of a selected entry returns an error and has printed
\* nothing at all.
C34_ListAllOrNothing ==
    /\ lpc = "ok" => listed = [i \in 1..Len(wanted) |-> wanted[i].PathRaw]
    /\ (lpc \in {"ok", "err"} /\ \E i \in 1..Len(wanted) : ~MetaPresent(wanted[i]))
          => (lpc = "err" /\ listed = <<>>)

(***************************************************************************)
(* Properties of the command line (specification SpecCLI)                  *)
(***************************************************************************)
\* C16: a run of create, ls or extract, under any alias, with ARKIV_PASS unset
\* or empty returns an error and does no archive I/O: the archive is neither
\* created or truncated, nor opened, and no writer or reader call is made.
C16_PassRequired ==
    [][ (/\ cliResult' # "none"
         /\ cliArgv'.cmd # <<>>
         /\ cliArgv'.cmd[1] \in aliasesCreate \cup aliasesList \cup aliasesExtract
         /\ Getenv(cliEnv') = "")
        => (/\ cliResult' = "err"
            /\ cliCall' = "none"
            /\ tar' = tar
            /\ loads' = loads
            /\ wpc' = wpc) ]_vars

\* An extract run with both arguments and ARKIV_PASS set to "" has returned an
\* error, over an archive that a create run wrote, and it was not opened
C16_Witness ==
    /\ cliResult = "err"
    /\ cliCall = "none"
    /\ cliArgv = [cmd |-> <<"--extract">>, args |-> <<ArchiveArg, DestArg, PathA>>]
    /\ cliEnv = <<"">>
    /\ wpc = "done"
    /\ loads = 0
    /\ xpc = "idle"

\* C33: when a create, ls or extract run that constructed a session returns,
\* with nil or with an error, the session has been closed: the password
\* buffer has the length it had and every byte of it is zero.
C33_PasswordWiped ==
    [][ (cliCall # "none" /\ cliCall' = "none")
        => (/\ Len(password) > 0
            /\ Len(password') = Len(password)
            /\ \A i \in 1..Len(password') : password'[i] = 0) ]_vars

\* An extract run that held the password while it worked and returned an
\* error, with the buffer wiped
C33_Witness ==
    /\ cliResult = "err"
    /\ cliCall = "none"
    /\ cliArgv.cmd[1] \in aliasesExtract
    /\ xpc = "err"
    /\ Len(password) = Len(Getenv(cliEnv))
    /\ \A i \in 1..Len(password) : password[i] = 0

(***************************************************************************)
(* Properties of Index.Serialize (specification SpecIndex)                 *)
(***************************************************************************)
\* The line an entry stands for: its quoted form, followed for an entry with
\* a hash by "=" and the hash in lowercase
ExpectedLine(e) ==
    IF e.HashData = <<>> THEN e.Quoted
    ELSE e.Quoted \o <<EQUALS>> \o
         [i \in 1..Len(e.HashData) |->
            IF e.HashData[i] \in 65..90 THEN e.HashData[i] + 32 ELSE e.HashData[i]]

\* C5: Serialize returns the distinct lines of the entries, each once, in
\* strictly ascending unsigned byte order, separated by single line-feeds,
\* with no trailing newline.
C5_SerializeCanonical ==
    sDone =>
        LET lines == SplitLF(sOut) IN
        /\ {lines[i] : i \in 1..Len(lines)} = {ExpectedLine(sEntries[i]) : i \in 1..Len(sEntries)}
        /\ \A i \in 1..(Len(lines) - 1) : ByteOrderLess(lines[i], lines[i + 1])

\* C5 witness: three entries serialized, two of them standing for the same
\* line, the last standing for a line that sorts before the first
C5_Witness ==
    /\ sDone
    /\ Len(sEntries) = 3
    /\ Cardinality({ExpectedLine(sEntries[i]) : i \in 1..3}) = 2
    /\ ByteOrderLess(ExpectedLine(sEntries[3]), ExpectedLine(sEntries[1]))

\* a hash as the writer produces it: lowercase hexadecimal
IsLowerHex(h) == \A i \in 1..Len(h) : h[i] \notin 65..90

\* C11: when the reader parses the serialized index, every entry the writer
\* put in comes back with the writer's escaped path as its raw path and with
\* the same data hash, for paths with backslashes or double quotes too.
C11_ParsedAsWritten ==
    sParsed # <<>> =>
        /\ sParsed[1].ok
        /\ \A i \in 1..Len(sEntries) :
              IsLowerHex(sEntries[i].HashData) =>
                 \E j \in 1..Len(sParsed[1].entries) :
                    /\ sParsed[1].entries[j].PathRaw = sEntries[i].PathRaw
                    /\ sParsed[1].entries[j].HashData = sEntries[i].HashData

(***************************************************************************)
(* Properties of the index parser (specification SpecParse)                *)
(***************************************************************************)
\* Whether raw is an escaped path: no double quote in it but after a
\* backslash, every backslash followed by a backslash or a double quote
RECURSIVE IsEscapedPath(_)
IsEscapedPath(raw) ==
    IF raw = <<>> THEN TRUE
    ELSE IF raw[1] = QUOTE THEN FALSE
    ELSE IF raw[1] = BSLASH
    THEN Len(raw) >= 2 /\ raw[2] \in {BSLASH, QUOTE} /\ IsEscapedPath(SubSeq(raw, 3, Len(raw)))
    ELSE IsEscapedPath(Tail(raw))

\* Whether h is a non-empty string of the digits 0-9 and a-f
IsDataHash(h) == h # <<>> /\ \A i \in 1..Len(h) : h[i] \in (48..57) \cup (97..102)

\* Whether a line is quote, raw_path, quote, alone or followed by = and a hash
WellShaped(line) ==
    \E k \in 2..Len(line) :
        /\ line[1] = QUOTE
        /\ line[k] = QUOTE
        /\ IsEscapedPath(SubSeq(line, 2, k - 1))
        /\ \/ k = Len(line)
           \/ /\ line[k + 1] = EQUALS
              /\ IsDataHash(SubSeq(line, k + 2, Len(line)))

\* The one line of the index being parsed
ParsedLine == SubSeq(sOut, 1, Len(sOut) - 1)

\* C28: a non-blank index line that is neither quote, raw_path, quote nor
\* that followed by = and a lowercase hexadecimal hash makes the parse fail.
C28_MalformedRejected ==
    (sParsed # <<>> /\ ParsedLine # <<>> /\ ~WellShaped(ParsedLine)) => ~sParsed[1].ok

(***************************************************************************)
(* Properties of the cipher pipeline (specification SpecCipher)            *)
(***************************************************************************)
\* C9: with the password it was written with, reading the decrypt reader to
\* its end yields exactly the plaintext and then EOF, whatever the split into
\* Write calls and however the source hands over the ciphertext.
C9_CipherRoundTrip ==
    (cpc \in {"eof", "error"} /\ rkey = wkey) => (cpc = "eof" /\ delivered = plain)

\* C10: when decryption ends in a padding error, no plaintext byte has been
\* delivered to the consumer.
C10_NoPartialPlaintext ==
    (cpc = "error" /\ rerr \in {"PadShort", "PadRange", "PadContent"}) => delivered = <<>>

\* The ciphertext bytes the decrypt reader has received from its source
Received == Len(cipherOut) - Len(src)

\* C21: as long as the source has not reported end-of-stream, the decrypt
\* reader holds back, undecrypted, the last full block it has received.
C21_FinalBlockHeld ==
    (cpc = "read" /\ ~rfin /\ Received >= BlockSize) => Len(rbuf) >= BlockSize

\* What the stream decrypts to under the writer's key, padding included
PaddedPlain == DecryptBlocks(wkey, IVOf(wkey), cipherOut).out

C25_PKCS7Padding ==
    cpc # "write" =>
        LET L == Len(plain)
            n == BlockSize - (L % BlockSize)
        IN /\ Len(cipherOut) = BlockSize * ((L \div BlockSize) + 1)
           /\ PaddedPlain = plain \o [i \in 1..n |-> n]

\* A block-aligned, non-empty plaintext has been written and the writer
\* closed: a whole block of padding follows it
C25_Witness ==
    /\ cpc = "closed"
    /\ Len(plain) = BlockSize
    /\ Len(cipherOut) = 2 * BlockSize
    /\ SubSeq(PaddedPlain, BlockSize + 1, 2 * BlockSize) = [i \in 1..BlockSize |-> BlockSize]

\* What the stream decrypts to under the reader's key
ReaderPlain == DecryptBlocks(rkey, IVOf(rkey), cipherOut).out

\* Whether the final decrypted block has no valid PKCS#7 padding
BadPadding(dec) ==
    LET n == dec[Len(dec)] IN
    \/ n = 0
    \/ n > BlockSize
    \/ \E i \in (Len(dec) - n + 1)..Len(dec) : dec[i] # n

\* C26: when the final decrypted block ends in a byte n that is 0 or above
\* 16, or its last n bytes are not all n, the decrypt reader does not end in
\* a successful end-of-stream: it ends in an error.
C26_BadPaddingRejected ==
    (cpc \in {"eof", "error"} /\ BadPadding(ReaderPlain)) => (cpc = "error" /\ rerr # "EOF")

\* A stream read to its end whose last byte is a valid length but whose
\* padding bytes differ was rejected for its padding content
C26_Witness ==
    /\ cpc = "error"
    /\ rerr = "PadContent"
    /\ ReaderPlain[Len(ReaderPlain)] \in 1..BlockSize
    /\ BadPadding(ReaderPlain)

(***************************************************************************)
(* Properties of the decrypt reader over streams cut short (specification  *)
(* SpecCipherCut)                                                          *)
(***************************************************************************)
\* C27: when the source reports end-of-stream and the decrypt reader then
\* holds fewer than 16 bytes of ciphertext it has not decrypted (none at all
\* included), Read fails with the unexpected-end-of-stream error.
C27_ShortAtEOF ==
    [][ (/\ cpc = "read"
         /\ ~rfin
         /\ rfin'
         /\ Len(rbuf) + (Len(src) - Len(src')) < BlockSize)
        => (cpc' = "error" /\ rerr' = "UnexpectedEOF") ]_vars

\* A stream cut inside a block: the blocks before the cut were decrypted and
\* delivered, then end-of-stream came with a partial block in the buffer
C27_Witness ==
    /\ cpc = "error"
    /\ rerr = "UnexpectedEOF"
    /\ Len(rbuf) \in 1..(BlockSize - 1)
    /\ delivered # <<>>

====
